---- MODULE Spec2Model ----
(***************************************************************************)
(* A model of the CareerOS backend (careeros-backend/app).                 *)
(*                                                                         *)
(* State: the five tables of database.py, the AUTOINCREMENT counters, the  *)
(* wall clock, the tokens handed to clients, the settings, the external     *)
(* model's call log (the number of calls and the last reply), the last     *)
(* response sent, and one in-flight request handler per worker process.  A worker is *)
(* one server process: its event loop runs a handler without ever          *)
(* suspending it (DBWrapper.execute and the ai_service calls contain no    *)
(* real await), so a worker holds at most one handler at a time; handlers  *)
(* of different workers interleave one SQL statement at a time.            *)
(*                                                                         *)
(* Optional values are sequences: <<>> is None / SQL NULL, <<v>> is v.     *)
(* Strings that are encoded or parsed are sequences of one-character       *)
(* strings.                                                                *)
(***************************************************************************)
EXTENDS Integers, Sequences, FiniteSets, TLC

VARIABLES users, profiles, achievements, applications, chat_messages,
          sqlite_sequence, last_insert_rowid, now, issued, settings, genai, task, last

tables == <<users, profiles, achievements, applications, chat_messages,
            sqlite_sequence, last_insert_rowid>>
vars == <<users, profiles, achievements, applications, chat_messages,
          sqlite_sequence, last_insert_rowid, now, issued, settings, genai, task,
          last>>

(***************************************************************************)
(* Bounds                                                                  *)
(***************************************************************************)
\* rows ever inserted into one table
MaxRows == 2
\* token lifetimes the clock may run through
MaxLifetimes == 1
\* minutes the clock may run past a whole number of lifetimes
MaxMinutes == 2
\* calls to the external model that are counted
MaxCalls == 2
\* chat messages inserted by the requests of a behaviour
MaxMessages == 4
\* tokens in the hands of clients, where logins are not what is looked at
MaxTokens == 3

Workers == {1, 2}

None == <<>>
Some(v) == <<v>>
IsNone(o) == o = <<>>
Val(o) == o[1]

(***************************************************************************)
(* config.py                                                               *)
(***************************************************************************)
SECRET_KEY == "your-secret-key-change-in-production"
ACCESS_TOKEN_EXPIRE_MINUTES == 60 * 24 * 7

\* The instants (in minutes) at which the model samples the wall clock.
Instants ==
  {k * ACCESS_TOKEN_EXPIRE_MINUTES + j : k \in 0..MaxLifetimes, j \in 0..MaxMinutes}

(***************************************************************************)
(* json.dumps / json.loads on a list of strings (routes.py list fields)    *)
(***************************************************************************)
QUOTE == "\""
BACKSLASH == "\\"
Whitespace == {" ", "\n"}

\* the characters of a string as written between the quotes, with no escaping
EscapeChar_Verbatim(c) == <<c>>

EscapeChar(c) ==
  IF c = QUOTE THEN <<BACKSLASH, QUOTE>>
  ELSE IF c = BACKSLASH THEN <<BACKSLASH, BACKSLASH>>
  ELSE IF c = "\n" THEN <<BACKSLASH, "n">>
  ELSE <<c>>

RECURSIVE EscapeString(_)
EscapeString(s) ==
  IF s = <<>> THEN <<>> ELSE EscapeChar(Head(s)) \o EscapeString(Tail(s))

EncodeString(s) == <<QUOTE>> \o EscapeString(s) \o <<QUOTE>>

RECURSIVE EncodeItems(_)
EncodeItems(l) ==
  IF l = <<>> THEN <<>>
  ELSE IF Len(l) = 1 THEN EncodeString(l[1])
  ELSE EncodeString(l[1]) \o <<",", " ">> \o EncodeItems(Tail(l))

\* json.dumps(l) for a list of strings: '["a", "b"]'
json_dumps(l) == <<"[">> \o EncodeItems(l) \o <<"]">>

JsonFail == [ok |-> FALSE, value |-> <<>>, next |-> 0]

RECURSIVE SkipWs(_, _)
SkipWs(t, i) ==
  IF i <= Len(t) /\ t[i] \in Whitespace THEN SkipWs(t, i + 1) ELSE i

\* scans a string body from position i (just after the opening quote)
RECURSIVE ScanString(_, _, _)
ScanString(t, i, acc) ==
  IF i > Len(t) THEN JsonFail
  ELSE IF t[i] = QUOTE THEN [ok |-> TRUE, value |-> acc, next |-> i + 1]
  ELSE IF t[i] = BACKSLASH
    THEN IF i + 1 <= Len(t) /\ t[i + 1] \in {QUOTE, BACKSLASH}
           THEN ScanString(t, i + 2, Append(acc, t[i + 1]))
           ELSE IF i + 1 <= Len(t) /\ t[i + 1] = "n"
             THEN ScanString(t, i + 2, Append(acc, "\n"))
             ELSE JsonFail
  ELSE IF t[i] = "\n" THEN JsonFail
  ELSE ScanString(t, i + 1, Append(acc, t[i]))

\* scans the items of an array from position i (a value is expected there)
RECURSIVE ScanItems(_, _, _)
ScanItems(t, i, acc) ==
  LET j == SkipWs(t, i) IN
  IF j > Len(t) \/ t[j] # QUOTE THEN JsonFail
  ELSE LET s == ScanString(t, j + 1, <<>>) IN
       IF ~s.ok THEN JsonFail
       ELSE LET k == SkipWs(t, s.next) IN
            IF k > Len(t) THEN JsonFail
            ELSE IF t[k] = "," THEN ScanItems(t, k + 1, Append(acc, s.value))
            ELSE IF t[k] = "]"
              THEN [ok |-> TRUE, value |-> Append(acc, s.value), next |-> k + 1]
            ELSE JsonFail

\* json.loads(t) for a text holding an array of strings; ok = FALSE is JSONDecodeError
json_loads(t) ==
  LET i == SkipWs(t, 1) IN
  IF i > Len(t) \/ t[i] # "[" THEN JsonFail
  ELSE LET j == SkipWs(t, i + 1) IN
       LET r == IF j <= Len(t) /\ t[j] = "]"
                  THEN [ok |-> TRUE, value |-> <<>>, next |-> j + 1]
                  ELSE ScanItems(t, j, <<>>) IN
       IF r.ok /\ SkipWs(t, r.next) > Len(t) THEN r ELSE JsonFail

\* json.dumps(x) if x else "[]"   (x: an optional list)
DumpList(x) ==
  IF IsNone(x) \/ Val(x) = <<>> THEN Some(<<"[", "]">>) ELSE Some(json_dumps(Val(x)))

\* if row.get(col): try json.loads(...) except: []  else: []   (col: an optional text)
LoadList(col) ==
  IF IsNone(col) \/ Val(col) = <<>> THEN <<>>
  ELSE LET r == json_loads(Val(col)) IN IF r.ok THEN r.value ELSE <<>>

(***************************************************************************)
(* auth.py                                                                 *)
(***************************************************************************)
\* hashlib.sha256((salt + password).encode()).hexdigest(): an injective digest
Sha256(salt, password) == "sha256(" \o salt \o password \o ")"

\* f"{salt}:{password_hash}"
get_password_hash(salt, password) == <<salt, ":", Sha256(salt, password)>>

\* a check that looks for the separator only
verify_password_SeparatorOnly(plain_password, hashed_password) ==
  \E i \in 1..Len(hashed_password) : hashed_password[i] = ":"

verify_password(plain_password, hashed_password) ==
  IF \A i \in 1..Len(hashed_password) : hashed_password[i] # ":" THEN FALSE
  ELSE LET k == CHOOSE i \in 1..Len(hashed_password) :
                  /\ hashed_password[i] = ":"
                  /\ \A j \in 1..(i - 1) : hashed_password[j] # ":" IN
       /\ k = 2
       /\ Len(hashed_password) = 3
       /\ Sha256(hashed_password[1], plain_password) = hashed_password[3]

Digits == <<"0", "1", "2", "3", "4", "5", "6", "7", "8", "9">>

\* str(n) and int(s) for the ids of the model (one digit)
IntToStr(n) == Digits[n + 1]
IsIntStr(s) == \E n \in 0..9 : Digits[n + 1] = s
StrToInt(s) == CHOOSE n \in 0..9 : Digits[n + 1] = s

\* create_access_token({"sub": user_id}): sub as a string, exp = utcnow() + lifetime
create_access_token(user_id, t) ==
  [fmt |-> "jwt", sub |-> Some(IntToStr(user_id)),
   exp |-> t + ACCESS_TOKEN_EXPIRE_MINUTES, key |-> SECRET_KEY]

\* a decoder that does not look at the exp claim
jwt_decode_Unexpiring(token, t) ==
  IF token.fmt # "jwt" \/ token.key # SECRET_KEY THEN [ok |-> FALSE, sub |-> None]
  ELSE [ok |-> TRUE, sub |-> token.sub]

\* jwt.decode(token, SECRET_KEY, algorithms=[ALGORITHM]): ok = FALSE is JWTError
jwt_decode(token, t) ==
  IF token.fmt # "jwt" THEN [ok |-> FALSE, sub |-> None]
  ELSE IF token.key # SECRET_KEY THEN [ok |-> FALSE, sub |-> None]
  ELSE IF token.exp < t THEN [ok |-> FALSE, sub |-> None]
  ELSE [ok |-> TRUE, sub |-> token.sub]

Unauthorized == [ok |-> FALSE, code |-> 401, id |-> 0]

UserById(user_id) == {u \in users : u.id = user_id}

\* get_current_user for a bearer token: the user's id, or the 401 of
\* credentials_exception
get_current_user(token) ==
  LET payload == jwt_decode(token, now) IN
  IF ~payload.ok THEN Unauthorized
  ELSE IF IsNone(payload.sub) THEN Unauthorized
  ELSE IF ~IsIntStr(Val(payload.sub)) THEN Unauthorized
  ELSE IF UserById(StrToInt(Val(payload.sub))) = {} THEN Unauthorized
  ELSE [ok |-> TRUE, code |-> 200, id |-> StrToInt(Val(payload.sub))]

\* security = HTTPBearer(): a request without a bearer credential is refused by the
\* framework before get_current_user runs; the status is 403 in the FastAPI
\* releases that answer "Not authenticated" with 403 and 401 in the later ones
HTTPBearerCodes == {401, 403}

RejectCodes(cred) == IF cred.hdr = "bearer" THEN {401} ELSE HTTPBearerCodes

\* Depends(get_current_user) on a request's credentials
Depends_get_current_user(cred) ==
  IF cred.hdr = "bearer" THEN get_current_user(cred.token) ELSE Unauthorized

(***************************************************************************)
(* Requests, responses, tasks                                              *)
(***************************************************************************)
Idle == [pc |-> "idle"]

NoCred == [hdr |-> "none"]
Bearer(token) == [hdr |-> "bearer", token |-> token]

Resp(op, cred, uid, arg, req, code, body) ==
  [op |-> op, cred |-> cred, uid |-> uid, arg |-> arg, req |-> req,
   code |-> code, body |-> body]

Task(pc, op, cred, uid, arg, req, loc) ==
  [pc |-> pc, op |-> op, cred |-> cred, uid |-> uid, arg |-> arg, req |-> req,
   loc |-> loc]

\* the handler of worker w answers and ends
Reply(w, op, cred, uid, arg, req, code, body) ==
  /\ last' = Resp(op, cred, uid, arg, req, code, body)
  /\ task' = [task EXCEPT ![w] = Idle]
  /\ UNCHANGED settings

\* the handler of worker w, in flight, answers and ends
Finish(w, code, body) ==
  Reply(w, task[w].op, task[w].cred, task[w].uid, task[w].arg, task[w].req, code, body)

\* the handler of worker w goes on to its next statement
Goto(w, pc, loc) ==
  /\ task' = [task EXCEPT ![w] = [task[w] EXCEPT !.pc = pc, !.loc = loc]]
  /\ UNCHANGED <<last, settings>>

\* the handler of worker w starts and goes on to the statement at pc
Begin(w, pc, op, cred, uid, arg, req, loc) ==
  /\ task' = [task EXCEPT ![w] = Task(pc, op, cred, uid, arg, req, loc)]
  /\ UNCHANGED <<last, settings>>

\* a protected route refused by its authentication dependency: nothing else runs
Refuse(w, op, cred, arg, req) ==
  /\ \E code \in RejectCodes(cred) : Reply(w, op, cred, 0, arg, req, code, None)
  /\ UNCHANGED <<tables, now, issued, genai>>

\* an INSERT by worker w took the next AUTOINCREMENT id of tbl; the id is what
\* SELECT last_insert_rowid() answers on w's connection until its next INSERT
Inserted(w, tbl) ==
  /\ sqlite_sequence' = [sqlite_sequence EXCEPT ![tbl] = @ + 1]
  /\ last_insert_rowid' = [last_insert_rowid EXCEPT ![w] = sqlite_sequence[tbl] + 1]

\* the greatest id any connection has inserted last
lastrowid_Newest(w) ==
  CHOOSE n \in {last_insert_rowid[v] : v \in Workers} :
    \A v \in Workers : last_insert_rowid[v] <= n

\* the id of the last INSERT of another connection
lastrowid_OfAnotherConnection(w) == last_insert_rowid[CHOOSE v \in Workers : v # w]

\* cursor.lastrowid on worker w's connection
lastrowid(w) == last_insert_rowid[w]

\* the state when the application has started with GEMINI_API_KEY = key on a
\* database file that holds the users us, their profiles ps and the chat messages
\* ms (CREATE TABLE IF NOT EXISTS keeps the rows of a file that exists)
StartedOn(key, us, ps, ms) ==
  /\ users = us
  /\ profiles = ps
  /\ achievements = {}
  /\ applications = {}
  /\ chat_messages = ms
  /\ sqlite_sequence = [users |-> Cardinality(us), profiles |-> Cardinality(ps),
                        achievements |-> 0, applications |-> 0,
                        chat_messages |-> Cardinality(ms)]
  /\ last_insert_rowid = [w \in Workers |-> 0]
  /\ now = 0
  /\ issued = {}
  /\ settings = [GEMINI_API_KEY |-> key]
  /\ genai = [calls |-> 0, reply |-> None]
  /\ task = [w \in Workers |-> Idle]
  /\ last = Resp("none", NoCred, 0, 0, None, 0, None)

\* the state when the application has started on a new database file
Started(key) == StartedOn(key, {}, {}, {})

\* GEMINI_API_KEY: str = os.environ.get("GEMINI_API_KEY", "")
Init == Started("")

(***************************************************************************)
(* routes.py: /auth                                                        *)
(***************************************************************************)
UserByEmail(email) == {u \in users : u.email = email}

\* a duplicate check that finds nothing
Existing_Skipped(email) == {}

\* register: SELECT id FROM users WHERE email = ?
Existing(email) == UserByEmail(email)

\* register, up to the duplicate check
register(w, email, password) ==
  /\ task[w] = Idle
  /\ IF Existing(email) # {}
       THEN /\ Reply(w, "register", NoCred, 0, 0, [email |-> email], 400, None)
            /\ UNCHANGED <<tables, now, issued, genai>>
       ELSE /\ Begin(w, "register_user", "register", NoCred,
                     0, 0, [email |-> email], [password |-> password])
            /\ UNCHANGED <<tables, now, issued, genai>>

\* register: get_password_hash, INSERT INTO users, commit
register_user(w, salt) ==
  /\ task[w].pc = "register_user"
  /\ IF UserByEmail(task[w].req.email) # {}
       THEN \* email TEXT UNIQUE: the statement raises, the request fails
            /\ Finish(w, 500, None)
            /\ UNCHANGED <<tables, now, issued, genai>>
       ELSE LET id == sqlite_sequence.users + 1 IN
            /\ users' = users \cup
                 {[id |-> id, email |-> task[w].req.email,
                   hashed_password |-> get_password_hash(salt, task[w].loc.password)]}
            /\ Inserted(w, "users")
            /\ Goto(w, "register_profile", None)
            /\ UNCHANGED <<profiles, achievements, applications, chat_messages,
                           now, issued, genai>>

\* register: cursor.lastrowid, INSERT INTO profiles, commit, create_access_token
register_profile(w) ==
  /\ task[w].pc = "register_profile"
  /\ LET user_id == lastrowid(w)
         token == create_access_token(user_id, now) IN
     IF \E p \in profiles : p.user_id = user_id
       THEN \* user_id INTEGER UNIQUE
            /\ Finish(w, 500, None)
            /\ UNCHANGED <<tables, now, issued, genai>>
       ELSE /\ profiles' = profiles \cup
                 {[id |-> sqlite_sequence.profiles + 1, user_id |-> user_id,
                   name |-> None, email |-> Some(task[w].req.email),
                   target_roles |-> None, user_values |-> None]}
            /\ Inserted(w, "profiles")
            /\ issued' = issued \cup {token}
            /\ Reply(w, "register", NoCred, user_id, 0, task[w].req, 200, token)
            /\ UNCHANGED <<users, achievements, applications, chat_messages,
                           now, genai>>

login(w, email, password) ==
  /\ task[w] = Idle
  /\ LET db_user == UserByEmail(email) IN
     IF db_user = {} \/ \A u \in db_user : ~verify_password(password, u.hashed_password)
       THEN /\ Reply(w, "login", NoCred, 0, 0,
                     [email |-> email, password |-> password], 401, None)
            /\ UNCHANGED <<tables, now, issued, genai>>
       ELSE LET u == CHOOSE u \in db_user : TRUE
                token == create_access_token(u.id, now) IN
            /\ issued' = issued \cup {token}
            /\ Reply(w, "login", NoCred, u.id, 0,
                     [email |-> email, password |-> password], 200, token)
            /\ UNCHANGED <<tables, now, genai>>

get_me(w, cred) ==
  /\ task[w] = Idle
  /\ LET current_user == Depends_get_current_user(cred) IN
     IF ~current_user.ok THEN Refuse(w, "get_me", cred, 0, None)
     ELSE /\ LET u == CHOOSE u \in UserById(current_user.id) : TRUE IN
             Reply(w, "get_me", cred, current_user.id, 0, None, 200,
                   [id |-> u.id, email |-> u.email])
          /\ UNCHANGED <<tables, now, issued, genai>>

(***************************************************************************)
(* routes.py: /profile                                                     *)
(***************************************************************************)
\* SELECT * FROM profiles WHERE user_id = ?
ProfileOf(user_id) == {p \in profiles : p.user_id = user_id}

\* a row of profiles as the handlers return it: target_roles parsed in place,
\* values parsed from the column user_values
ProfileOut(row) ==
  [id |-> row.id, user_id |-> row.user_id, name |-> row.name, email |-> row.email,
   target_roles |-> LoadList(row.target_roles),
   values |-> LoadList(row.user_values)]

get_profile(w, cred) ==
  /\ task[w] = Idle
  /\ LET current_user == Depends_get_current_user(cred) IN
     IF ~current_user.ok THEN Refuse(w, "get_profile", cred, 0, None)
     ELSE /\ LET profile == ProfileOf(current_user.id) IN
             IF profile = {}
               THEN Reply(w, "get_profile", cred, current_user.id, 0, None, 404, None)
               ELSE Reply(w, "get_profile", cred, current_user.id, 0, None, 200,
                          ProfileOut(CHOOSE p \in profile : TRUE))
          /\ UNCHANGED <<tables, now, issued, genai>>

\* update_profile: UPDATE profiles SET ... WHERE user_id = ?, commit
update_profile(w, cred, profile_update) ==
  /\ task[w] = Idle
  /\ LET current_user == Depends_get_current_user(cred) IN
     IF ~current_user.ok THEN Refuse(w, "update_profile", cred, 0, profile_update)
     ELSE /\ profiles' =
               {IF p.user_id = current_user.id
                  THEN [p EXCEPT !.name = profile_update.name,
                                 !.email = profile_update.email,
                                 !.target_roles = DumpList(profile_update.target_roles),
                                 !.user_values = DumpList(profile_update.values)]
                  ELSE p : p \in profiles}
          /\ Begin(w, "update_profile_read", "update_profile", cred,
                   current_user.id, 0, profile_update, None)
          /\ UNCHANGED <<users, achievements, applications, chat_messages,
                         sqlite_sequence, last_insert_rowid, now, issued, genai>>

\* update_profile: SELECT * FROM profiles WHERE user_id = ?, and the response;
\* without a row, profile is None and profile.get raises
update_profile_read(w) ==
  /\ task[w].pc = "update_profile_read"
  /\ LET profile == ProfileOf(task[w].uid) IN
     IF profile = {} THEN Finish(w, 500, None)
     ELSE Finish(w, 200, ProfileOut(CHOOSE p \in profile : TRUE))
  /\ UNCHANGED <<tables, now, issued, genai>>

(***************************************************************************)
(* routes.py: /achievements                                                *)
(***************************************************************************)
\* the orders in which SELECT ... ORDER BY created_at DESC may return the rows S
NewestFirst(S) ==
  {f \in [1..Cardinality(S) -> S] :
     /\ \A i, j \in 1..Cardinality(S) : i # j => f[i] # f[j]
     /\ \A i, j \in 1..Cardinality(S) : i < j => f[i].created_at >= f[j].created_at}

\* a row of achievements as the handlers return it (list columns parsed)
AchievementOut(row) ==
  [id |-> row.id, user_id |-> row.user_id, core_task |-> row.core_task,
   impact_metric |-> row.impact_metric,
   skills_used |-> LoadList(row.skills_used), tags |-> LoadList(row.tags),
   verification_level |-> row.verification_level]

\* the pre-check and the statements without the owner column
OwnedBy_AnyOwner(rows, id, user_id) == {r \in rows : r.id = id}

\* WHERE id = ? AND user_id = ?
OwnedBy(rows, id, user_id) == {r \in rows : r.id = id /\ r.user_id = user_id}

\* WHERE id = ?
ById(rows, id) == {r \in rows : r.id = id}

get_achievements(w, cred) ==
  /\ task[w] = Idle
  /\ LET current_user == Depends_get_current_user(cred) IN
     IF ~current_user.ok THEN Refuse(w, "get_achievements", cred, 0, None)
     ELSE /\ \E rows \in NewestFirst({r \in achievements : r.user_id = current_user.id}) :
               Reply(w, "get_achievements", cred, current_user.id, 0, None, 200,
                     [i \in DOMAIN rows |-> AchievementOut(rows[i])])
          /\ UNCHANGED <<tables, now, issued, genai>>

\* INSERT INTO achievements (...) for user_id with the fields of a, at row id
AchievementRow(id, user_id, a, verification_level) ==
  [id |-> id, user_id |-> user_id, core_task |-> a.core_task,
   impact_metric |-> a.impact_metric,
   skills_used |-> DumpList(a.skills_used), tags |-> DumpList(a.tags),
   verification_level |-> verification_level, created_at |-> now]

\* create_achievement: INSERT INTO achievements, commit
create_achievement(w, cred, achievement) ==
  /\ task[w] = Idle
  /\ LET current_user == Depends_get_current_user(cred) IN
     IF ~current_user.ok THEN Refuse(w, "create_achievement", cred, 0, achievement)
     ELSE LET id == sqlite_sequence.achievements + 1 IN
          /\ sqlite_sequence.achievements < MaxRows
          /\ achievements' = achievements \cup
               {AchievementRow(id, current_user.id, achievement,
                               achievement.verification_level)}
          /\ Inserted(w, "achievements")
          /\ Begin(w, "create_achievement_read", "create_achievement", cred,
                   current_user.id, 0, achievement, None)
          /\ UNCHANGED <<users, profiles, applications, chat_messages,
                         now, issued, genai>>

\* create_achievement: cursor.lastrowid, SELECT * FROM achievements WHERE id = ?,
\* and the response
create_achievement_read(w) ==
  /\ task[w].pc = "create_achievement_read"
  /\ LET row == ById(achievements, lastrowid(w)) IN
     IF row = {} THEN Finish(w, 500, None)
     ELSE Finish(w, 200, AchievementOut(CHOOSE r \in row : TRUE))
  /\ UNCHANGED <<tables, now, issued, genai>>

\* update_achievement: the ownership pre-check
update_achievement(w, cred, achievement_id, achievement_update) ==
  /\ task[w] = Idle
  /\ LET current_user == Depends_get_current_user(cred) IN
     IF ~current_user.ok
       THEN Refuse(w, "update_achievement", cred, achievement_id, achievement_update)
     ELSE /\ IF OwnedBy(achievements, achievement_id, current_user.id) = {}
               THEN Reply(w, "update_achievement", cred, current_user.id,
                          achievement_id, achievement_update, 404, None)
               ELSE /\ Begin(w, "update_achievement_write", "update_achievement", cred,
                             current_user.id, achievement_id, achievement_update, None)
          /\ UNCHANGED <<tables, now, issued, genai>>

\* update_achievement: UPDATE achievements SET ... WHERE id = ? AND user_id = ?
update_achievement_write(w) ==
  /\ task[w].pc = "update_achievement_write"
  /\ achievements' =
       {IF r \in OwnedBy(achievements, task[w].arg, task[w].uid)
          THEN [r EXCEPT !.core_task = task[w].req.core_task,
                         !.impact_metric = task[w].req.impact_metric,
                         !.skills_used = DumpList(task[w].req.skills_used),
                         !.tags = DumpList(task[w].req.tags),
                         !.verification_level = task[w].req.verification_level]
          ELSE r : r \in achievements}
  /\ Goto(w, "update_achievement_read", None)
  /\ UNCHANGED <<users, profiles, applications, chat_messages, sqlite_sequence,
                 last_insert_rowid, now, issued, genai>>

\* update_achievement: SELECT * FROM achievements WHERE id = ?, and the response
update_achievement_read(w) ==
  /\ task[w].pc = "update_achievement_read"
  /\ LET row == ById(achievements, task[w].arg) IN
     IF row = {} THEN Finish(w, 500, None)
     ELSE Finish(w, 200, AchievementOut(CHOOSE r \in row : TRUE))
  /\ UNCHANGED <<tables, now, issued, genai>>

\* delete_achievement: the ownership pre-check
delete_achievement(w, cred, achievement_id) ==
  /\ task[w] = Idle
  /\ LET current_user == Depends_get_current_user(cred) IN
     IF ~current_user.ok THEN Refuse(w, "delete_achievement", cred, achievement_id, None)
     ELSE /\ IF OwnedBy(achievements, achievement_id, current_user.id) = {}
               THEN Reply(w, "delete_achievement", cred, current_user.id,
                          achievement_id, None, 404, None)
               ELSE /\ Begin(w, "delete_achievement_write", "delete_achievement", cred,
                             current_user.id, achievement_id, None, None)
          /\ UNCHANGED <<tables, now, issued, genai>>

\* delete_achievement: DELETE FROM achievements WHERE id = ? AND user_id = ?
delete_achievement_write(w) ==
  /\ task[w].pc = "delete_achievement_write"
  /\ achievements' = achievements \ OwnedBy(achievements, task[w].arg, task[w].uid)
  /\ Finish(w, 200, "Achievement deleted")
  /\ UNCHANGED <<users, profiles, applications, chat_messages, sqlite_sequence,
                 last_insert_rowid, now, issued, genai>>

(***************************************************************************)
(* routes.py: /applications                                                *)
(***************************************************************************)
\* status TEXT CHECK (status IN (...)): a NULL status passes the CHECK
StatusEnum == {"saved", "applied", "interview", "offer", "rejected"}
StatusCheck(status) == IsNone(status) \/ Val(status) \in StatusEnum

get_applications(w, cred) ==
  /\ task[w] = Idle
  /\ LET current_user == Depends_get_current_user(cred) IN
     IF ~current_user.ok THEN Refuse(w, "get_applications", cred, 0, None)
     ELSE /\ \E rows \in NewestFirst({r \in applications : r.user_id = current_user.id}) :
               Reply(w, "get_applications", cred, current_user.id, 0, None, 200, rows)
          /\ UNCHANGED <<tables, now, issued, genai>>

\* create_application: INSERT INTO applications (the statement names no applied_at)
create_application(w, cred, application) ==
  /\ task[w] = Idle
  /\ LET current_user == Depends_get_current_user(cred) IN
     IF ~current_user.ok THEN Refuse(w, "create_application", cred, 0, application)
     ELSE IF ~StatusCheck(application.status)
       THEN /\ Reply(w, "create_application", cred, current_user.id, 0, application,
                     500, None)
            /\ UNCHANGED <<tables, now, issued, genai>>
     ELSE /\ sqlite_sequence.applications < MaxRows
          /\ applications' = applications \cup
               {[id |-> sqlite_sequence.applications + 1, user_id |-> current_user.id,
                 job_title |-> application.job_title, status |-> application.status,
                 applied_at |-> None, created_at |-> now]}
          /\ Inserted(w, "applications")
          /\ Begin(w, "create_application_read", "create_application", cred,
                   current_user.id, 0, application, None)
          /\ UNCHANGED <<users, profiles, achievements, chat_messages,
                         now, issued, genai>>

\* create_application: cursor.lastrowid, SELECT * FROM applications WHERE id = ?
create_application_read(w) ==
  /\ task[w].pc = "create_application_read"
  /\ LET row == ById(applications, lastrowid(w)) IN
     IF row = {} THEN Finish(w, 500, None)
     ELSE Finish(w, 200, CHOOSE r \in row : TRUE)
  /\ UNCHANGED <<tables, now, issued, genai>>

\* update_application: the ownership pre-check
update_application(w, cred, application_id, application_update) ==
  /\ task[w] = Idle
  /\ LET current_user == Depends_get_current_user(cred) IN
     IF ~current_user.ok
       THEN Refuse(w, "update_application", cred, application_id, application_update)
     ELSE /\ IF OwnedBy(applications, application_id, current_user.id) = {}
               THEN Reply(w, "update_application", cred, current_user.id,
                          application_id, application_update, 404, None)
               ELSE /\ Begin(w, "update_application_write", "update_application", cred,
                             current_user.id, application_id, application_update, None)
          /\ UNCHANGED <<tables, now, issued, genai>>

\* applied_at = None; if application_update.status == "applied":
\*     applied_at = datetime.utcnow().isoformat()          (t: the clock's reading)
AppliedAt(application_update, t) ==
  IF application_update.status = Some("applied") THEN Some(t) ELSE None

\* the parameter written whatever it is
Coalesce_Overwrite(a, b) == a

\* applied_at = COALESCE(?, applied_at)
Coalesce(a, b) == IF IsNone(a) THEN b ELSE a

\* UPDATE applications SET ... WHERE id = ? AND user_id = ?
UpdatedApplication(r, application_update, t) ==
  [r EXCEPT !.job_title = application_update.job_title,
            !.status = application_update.status,
            !.applied_at = Coalesce(AppliedAt(application_update, t), r.applied_at)]

\* update_application: the clock is read when the new status is "applied" (two
\* requests that read it do so at different instants), then the UPDATE
update_application_write(w) ==
  /\ task[w].pc = "update_application_write"
  /\ \E t \in Instants :
       /\ IF task[w].req.status = Some("applied") THEN t > now ELSE t = now
       /\ now' = t
       /\ IF ~StatusCheck(task[w].req.status)
            THEN /\ Finish(w, 500, None)
                 /\ UNCHANGED applications
            ELSE /\ applications' =
                      {IF r \in OwnedBy(applications, task[w].arg, task[w].uid)
                         THEN UpdatedApplication(r, task[w].req, t)
                         ELSE r : r \in applications}
                 /\ Goto(w, "update_application_read", None)
  /\ UNCHANGED <<users, profiles, achievements, chat_messages, sqlite_sequence,
                 last_insert_rowid, issued, genai>>

\* update_application: SELECT * FROM applications WHERE id = ?, and the response
update_application_read(w) ==
  /\ task[w].pc = "update_application_read"
  /\ LET row == ById(applications, task[w].arg) IN
     IF row = {} THEN Finish(w, 500, None)
     ELSE Finish(w, 200, CHOOSE r \in row : TRUE)
  /\ UNCHANGED <<tables, now, issued, genai>>

\* delete_application: the ownership pre-check
delete_application(w, cred, application_id) ==
  /\ task[w] = Idle
  /\ LET current_user == Depends_get_current_user(cred) IN
     IF ~current_user.ok THEN Refuse(w, "delete_application", cred, application_id, None)
     ELSE /\ IF OwnedBy(applications, application_id, current_user.id) = {}
               THEN Reply(w, "delete_application", cred, current_user.id,
                          application_id, None, 404, None)
               ELSE /\ Begin(w, "delete_application_write", "delete_application", cred,
                             current_user.id, application_id, None, None)
          /\ UNCHANGED <<tables, now, issued, genai>>

\* delete_application: DELETE FROM applications WHERE id = ? AND user_id = ?
delete_application_write(w) ==
  /\ task[w].pc = "delete_application_write"
  /\ applications' = applications \ OwnedBy(applications, task[w].arg, task[w].uid)
  /\ Finish(w, 200, "Application deleted")
  /\ UNCHANGED <<users, profiles, achievements, chat_messages, sqlite_sequence,
                 last_insert_rowid, now, issued, genai>>

(***************************************************************************)
(* ai_service.py: the text of a model reply.  A text is a sequence of      *)
(* lexemes: the fence ```, the word json, whitespace, the punctuation of   *)
(* JSON, string literals with plain content, one-digit numbers, null, and  *)
(* words of prose.                                                         *)
(***************************************************************************)
\* the lexeme of three backquotes (a string of the notation cannot hold them)
FENCE == "<3 backquotes>"

\* the JSON string literal with the plain content s
StrLit(s) == QUOTE \o s \o QUOTE

\* the contents of the string literals of the replies
Strings ==
  {"achievement_extracted", "core_task", "impact_metric", "skills_used", "tags",
   "verification_level", "tailored_summary", "selected_achievements",
   "match_score", "suggestions", "name", "summary", "target_roles", "error",
   "note", "id", "Cut latency", "by 40%", "Go", "SQL", "Ada", "SRE",
   "Fits the role.", "Add metrics", "high"}

IsStrLit(tok) == \E s \in Strings : tok = StrLit(s)
StrOf(tok) == CHOOSE s \in Strings : tok = StrLit(s)

\* parsed JSON values, tagged with their type
JNull == [tag |-> "null", v |-> <<>>]
JStr(s) == [tag |-> "str", v |-> s]
JNum(n) == [tag |-> "num", v |-> n]
JArr(items) == [tag |-> "arr", v |-> items]
JObj(members) == [tag |-> "obj", v |-> members]
Member(key, value) == [key |-> key, value |-> value]

ParseFail == [ok |-> FALSE, value |-> JNull, next |-> 0]
Parsed(value, next) == [ok |-> TRUE, value |-> value, next |-> next]

RECURSIVE ParseValue(_, _)
RECURSIVE ParseMembers(_, _, _)
RECURSIVE ParseElements(_, _, _)

\* the value that starts at position i of text, after whitespace
ParseValue(text, i) ==
  LET j == SkipWs(text, i) IN
  IF j > Len(text) THEN ParseFail
  ELSE IF text[j] = "{"
    THEN LET k == SkipWs(text, j + 1) IN
         IF k <= Len(text) /\ text[k] = "}" THEN Parsed(JObj(<<>>), k + 1)
         ELSE ParseMembers(text, k, <<>>)
  ELSE IF text[j] = "["
    THEN LET k == SkipWs(text, j + 1) IN
         IF k <= Len(text) /\ text[k] = "]" THEN Parsed(JArr(<<>>), k + 1)
         ELSE ParseElements(text, k, <<>>)
  ELSE IF text[j] = "null" THEN Parsed(JNull, j + 1)
  ELSE IF IsIntStr(text[j]) THEN Parsed(JNum(StrToInt(text[j])), j + 1)
  ELSE IF IsStrLit(text[j]) THEN Parsed(JStr(StrOf(text[j])), j + 1)
  ELSE ParseFail

\* the members of an object from position i, where a key is expected
ParseMembers(text, i, acc) ==
  IF i > Len(text) \/ ~IsStrLit(text[i]) THEN ParseFail
  ELSE LET c == SkipWs(text, i + 1) IN
       IF c > Len(text) \/ text[c] # ":" THEN ParseFail
       ELSE LET val == ParseValue(text, c + 1) IN
            IF ~val.ok THEN ParseFail
            ELSE LET k == SkipWs(text, val.next)
                     acc2 == Append(acc, Member(StrOf(text[i]), val.value)) IN
                 IF k > Len(text) THEN ParseFail
                 ELSE IF text[k] = "," THEN ParseMembers(text, SkipWs(text, k + 1), acc2)
                 ELSE IF text[k] = "}" THEN Parsed(JObj(acc2), k + 1)
                 ELSE ParseFail

\* the elements of an array from position i, where a value is expected
ParseElements(text, i, acc) ==
  LET val == ParseValue(text, i) IN
  IF ~val.ok THEN ParseFail
  ELSE LET k == SkipWs(text, val.next)
           acc2 == Append(acc, val.value) IN
       IF k > Len(text) THEN ParseFail
       ELSE IF text[k] = "," THEN ParseElements(text, k + 1, acc2)
       ELSE IF text[k] = "]" THEN Parsed(JArr(acc2), k + 1)
       ELSE ParseFail

\* json.loads(text): ok = FALSE is json.JSONDecodeError
loads(text) ==
  LET r == ParseValue(text, 1) IN
  IF r.ok /\ SkipWs(text, r.next) > Len(text) THEN r ELSE ParseFail

\* key in data, data[key] (of the members with one key, json.loads keeps the last)
Has(data, key) == \E i \in DOMAIN data.v : data.v[i].key = key
Get(data, key) ==
  data.v[CHOOSE i \in DOMAIN data.v :
           /\ data.v[i].key = key
           /\ \A j \in DOMAIN data.v : data.v[j].key = key => j <= i].value

NoMatch == [found |-> FALSE, start |-> 0, stop |-> 0, gstart |-> 0, gstop |-> 0]

\* a match of ```json\s*(\{.*?\})\s*``` begins at a, and its group ends at c
FencedTo(text, c) ==
  /\ text[c] = "}"
  /\ SkipWs(text, c + 1) <= Len(text)
  /\ text[SkipWs(text, c + 1)] = FENCE

FencedAt(text, a) ==
  /\ a + 1 <= Len(text)
  /\ text[a] = FENCE
  /\ text[a + 1] = "json"
  /\ SkipWs(text, a + 2) <= Len(text)
  /\ text[SkipWs(text, a + 2)] = "{"
  /\ \E c \in (SkipWs(text, a + 2) + 1)..Len(text) : FencedTo(text, c)

\* re.search(r'```json\s*(\{.*?\})\s*```', text, re.DOTALL): the leftmost match,
\* its group the shortest that lets the rest match
search_fenced(text) ==
  IF \A a \in 1..Len(text) : ~FencedAt(text, a) THEN NoMatch
  ELSE LET a == CHOOSE a \in 1..Len(text) :
                  FencedAt(text, a) /\ \A a2 \in 1..(a - 1) : ~FencedAt(text, a2)
           b == SkipWs(text, a + 2)
           c == CHOOSE c \in (b + 1)..Len(text) :
                  FencedTo(text, c) /\ \A c2 \in (b + 1)..(c - 1) : ~FencedTo(text, c2)
       IN [found |-> TRUE, start |-> a, stop |-> SkipWs(text, c + 1),
           gstart |-> b, gstop |-> c]

\* re.search(r'\{.*\}', text, re.DOTALL): from the first { to the last } after it
search_braces(text) ==
  LET opens == {i \in 1..Len(text) : text[i] = "{"}
      closes == {i \in 1..Len(text) : text[i] = "}"} IN
  IF opens = {} THEN NoMatch
  ELSE LET a == CHOOSE i \in opens : \A j \in opens : i <= j IN
       IF \A c \in closes : c < a THEN NoMatch
       ELSE LET c == CHOOSE i \in closes : \A j \in closes : j <= i IN
            [found |-> TRUE, start |-> a, stop |-> c, gstart |-> a, gstop |-> c]

group0(text, m) == SubSeq(text, m.start, m.stop)
group1(text, m) == SubSeq(text, m.gstart, m.gstop)

\* text.replace(sub, ""): every occurrence of sub, left to right, removed
RECURSIVE replace(_, _)
replace(text, sub) ==
  IF Len(text) < Len(sub) THEN text
  ELSE IF SubSeq(text, 1, Len(sub)) = sub
    THEN replace(SubSeq(text, Len(sub) + 1, Len(text)), sub)
  ELSE <<Head(text)>> \o replace(Tail(text), sub)

\* text.strip()
RECURSIVE strip(_)
strip(text) ==
  IF text = <<>> THEN text
  ELSE IF Head(text) \in Whitespace THEN strip(Tail(text))
  ELSE IF text[Len(text)] \in Whitespace THEN strip(SubSeq(text, 1, Len(text) - 1))
  ELSE text

(***************************************************************************)
(* schemas.py: the response and draft models, validated on parsed JSON     *)
(* (pydantic 2: a str field takes a string only)                           *)
(***************************************************************************)
IsStrList(x) == x.tag = "arr" /\ \A i \in DOMAIN x.v : x.v[i].tag = "str"

\* Optional[str], Optional[List[str]]: absent, null, or of the type
OptionalStr(d, key) == Has(d, key) => Get(d, key).tag \in {"null", "str"}
OptionalStrList(d, key) ==
  Has(d, key) => (Get(d, key).tag = "null" \/ IsStrList(Get(d, key)))

\* the field's value: the default when absent, None for null
StrField(d, key, default) ==
  IF ~Has(d, key) THEN default
  ELSE IF Get(d, key).tag = "null" THEN None ELSE Some(Get(d, key).v)

ListField(d, key, default) ==
  IF ~Has(d, key) THEN default
  ELSE IF Get(d, key).tag = "null" THEN None
  ELSE Some([i \in DOMAIN Get(d, key).v |-> <<Get(d, key).v[i].v>>])

\* AchievementCreate(**payload): TypeError when payload is not a mapping,
\* ValidationError (a ValueError) when a field is missing or of the wrong type
AchievementCreate(payload) ==
  IF payload.tag # "obj" THEN [raised |-> "TypeError", value |-> None]
  ELSE IF ~ /\ Has(payload, "core_task")
            /\ Get(payload, "core_task").tag = "str"
            /\ OptionalStr(payload, "impact_metric")
            /\ OptionalStrList(payload, "skills_used")
            /\ OptionalStrList(payload, "tags")
            /\ OptionalStr(payload, "verification_level")
    THEN [raised |-> "ValidationError", value |-> None]
  ELSE [raised |-> "",
        value |-> Some([core_task |-> Get(payload, "core_task").v,
                        impact_metric |-> StrField(payload, "impact_metric", None),
                        skills_used |-> ListField(payload, "skills_used", Some(<<>>)),
                        tags |-> ListField(payload, "tags", Some(<<>>)),
                        verification_level |->
                          StrField(payload, "verification_level", Some("Medium"))])]

\* TailorResponse(**result): ok = FALSE is ValidationError
TailorResponse(result) ==
  IF /\ Has(result, "tailored_summary")
     /\ Get(result, "tailored_summary").tag = "str"
     /\ Has(result, "selected_achievements")
     /\ Get(result, "selected_achievements").tag = "arr"
     /\ \A i \in DOMAIN Get(result, "selected_achievements").v :
          Get(result, "selected_achievements").v[i].tag = "obj"
     /\ Has(result, "match_score")
     /\ \/ Get(result, "match_score").tag = "num"
        \/ /\ Get(result, "match_score").tag = "str"
           /\ IsIntStr(Get(result, "match_score").v)
     /\ Has(result, "suggestions")
     /\ IsStrList(Get(result, "suggestions"))
    THEN [ok |-> TRUE,
          value |-> [tailored_summary |-> Get(result, "tailored_summary").v,
                     selected_achievements |-> Get(result, "selected_achievements").v,
                     match_score |->
                       IF Get(result, "match_score").tag = "num"
                         THEN Get(result, "match_score").v
                         ELSE StrToInt(Get(result, "match_score").v),
                     suggestions |->
                       [i \in DOMAIN Get(result, "suggestions").v |->
                          Get(result, "suggestions").v[i].v]]]
    ELSE [ok |-> FALSE, value |-> None]

\* ResumeExtractResponse(**result): the extracted profile draft or the error
\* payload, every field optional; ok = FALSE is ValidationError
ResumeExtractResponse(result) ==
  IF /\ OptionalStr(result, "name")
     /\ OptionalStr(result, "summary")
     /\ OptionalStrList(result, "target_roles")
     /\ OptionalStr(result, "error")
    THEN [ok |-> TRUE,
          value |-> [name |-> StrField(result, "name", None),
                     summary |-> StrField(result, "summary", None),
                     target_roles |-> ListField(result, "target_roles", None),
                     error |-> StrField(result, "error", None)]]
    ELSE [ok |-> FALSE, value |-> None]

(***************************************************************************)
(* ai_service.py                                                           *)
(***************************************************************************)
\* a configuration check that always passes
configure_gemini_Always == TRUE

\* configure_gemini(): whether an API key is set
configure_gemini == settings.GEMINI_API_KEY # ""

NOT_CONFIGURED_CHAT ==
  <<"AI features require a Gemini API key. Please configure GEMINI_API_KEY in the environment.">>

NOT_CONFIGURED_TAILOR ==
  JObj(<<Member("tailored_summary", JStr("AI features require a Gemini API key.")),
         Member("selected_achievements", JArr(<<>>)),
         Member("match_score", JNum(0)),
         Member("suggestions",
                JArr(<<JStr("Configure GEMINI_API_KEY to enable AI features")>>))>>)

UNABLE_TAILOR ==
  JObj(<<Member("tailored_summary",
                JStr("Unable to generate tailored summary. Please try again.")),
         Member("selected_achievements", JArr(<<>>)),
         Member("match_score", JNum(0)),
         Member("suggestions",
                JArr(<<JStr("Try providing more details in the job description")>>))>>)

NOT_CONFIGURED_EXTRACT ==
  JObj(<<Member("error",
                JStr("AI features require a Gemini API key. Please configure GEMINI_API_KEY."))>>)

UNABLE_EXTRACT ==
  JObj(<<Member("error",
                JStr("Unable to extract profile information. Please try again."))>>)

\* "\n\n" and the check mark U+2713 before " Achievement captured!"
CAPTURED == <<"\n", "\n", "U+2713 Achievement captured!">>

\* chat_with_interviewer from the reply of chat.send_message on: the visible
\* text and the draft, or raised = TRUE for an exception the except clause
\* (json.JSONDecodeError, ValueError) does not catch
chat_with_interviewer(response_text) ==
  LET json_match == search_fenced(response_text)
      asis == [raised |-> FALSE, response_text |-> response_text,
               achievement |-> None] IN
  IF ~json_match.found THEN asis
  ELSE LET data == loads(group1(response_text, json_match)) IN
       IF ~data.ok THEN asis
       ELSE IF ~Has(data.value, "achievement_extracted") THEN asis
       ELSE LET achievement ==
                  AchievementCreate(Get(data.value, "achievement_extracted")) IN
            IF achievement.raised = "TypeError"
              THEN [raised |-> TRUE, response_text |-> response_text,
                    achievement |-> None]
            ELSE IF achievement.raised = "ValidationError" THEN asis
            ELSE [raised |-> FALSE,
                  response_text |->
                    strip(replace(response_text, group0(response_text, json_match)))
                      \o CAPTURED,
                  achievement |-> achievement.value]

\* the part of tailor_resume and of extract_profile_from_resume from the reply of
\* model.generate_content on: the object parsed from the braces, or the default
scrape(response_text, default) ==
  LET json_match == search_braces(response_text) IN
  IF ~json_match.found THEN default
  ELSE LET data == loads(group0(response_text, json_match)) IN
       IF data.ok THEN data.value ELSE default

tailor_resume(response_text) == scrape(response_text, UNABLE_TAILOR)

extract_profile_from_resume(response_text) == scrape(response_text, UNABLE_EXTRACT)

\* the external model is called and answers response_text
Called(response_text) ==
  genai' = [calls |-> genai.calls + 1, reply |-> Some(response_text)]

\* no further call is counted past the bound
MayCall == configure_gemini => genai.calls < MaxCalls

(***************************************************************************)
(* routes.py: /chat, /chat/history, /tailor, /extract-profile              *)
(***************************************************************************)
\* the orders in which SELECT ... ORDER BY created_at ASC may return the rows S:
\* a row with the least created_at, then the others in such an order
RECURSIVE OldestFirst(_)
OldestFirst(S) ==
  IF S = {} THEN {<<>>}
  ELSE UNION {{<<m>> \o rest : rest \in OldestFirst(S \ {m})} :
                m \in {m \in S : \A n \in S : m.created_at <= n.created_at}}

\* LIMIT 20
ChatHistoryLimit == 20

Limit(rows, n) == SubSeq(rows, 1, IF Len(rows) < n THEN Len(rows) ELSE n)

ChatOf(user_id) == {m \in chat_messages : m.user_id = user_id}

\* INSERT INTO chat_messages (user_id, role, content) by worker w
InsertMessage(w, role, content) ==
  /\ chat_messages' = chat_messages \cup
       {[id |-> sqlite_sequence.chat_messages + 1, user_id |-> task[w].uid,
         role |-> role, content |-> content, created_at |-> now]}
  /\ Inserted(w, "chat_messages")

\* chat: SELECT role, content FROM chat_messages ... ORDER BY created_at ASC LIMIT 20
chat(w, cred, message) ==
  /\ task[w] = Idle
  /\ LET current_user == Depends_get_current_user(cred) IN
     IF ~current_user.ok THEN Refuse(w, "chat", cred, 0, [message |-> message])
     ELSE /\ sqlite_sequence.achievements < MaxRows
          /\ MayCall
          /\ \E rows \in OldestFirst(ChatOf(current_user.id)) :
               Begin(w, "chat_user_message", "chat", cred, current_user.id, 0,
                     [message |-> message],
                     [chat_history |->
                        [i \in DOMAIN Limit(rows, ChatHistoryLimit) |->
                           [role |-> rows[i].role, content |-> rows[i].content]]])
          /\ UNCHANGED <<tables, now, issued, genai>>

\* the user's message not stored before the model is called
chat_user_message_Deferred(w) ==
  /\ task[w].pc = "chat_user_message"
  /\ Goto(w, "chat_model", task[w].loc)
  /\ UNCHANGED <<tables, now, issued, genai>>

\* chat: INSERT INTO chat_messages (the user's message), commit
chat_user_message(w) ==
  /\ task[w].pc = "chat_user_message"
  /\ InsertMessage(w, "user", task[w].req.message)
  /\ Goto(w, "chat_model", task[w].loc)
  /\ UNCHANGED <<users, profiles, achievements, applications, now, issued, genai>>

\* chat: chat_with_interviewer(request.message, chat_history); the model, when it
\* is called, answers response_text
chat_model(w, response_text) ==
  /\ task[w].pc = "chat_model"
  /\ IF ~configure_gemini
       THEN /\ Goto(w, "chat_assistant_message",
                    [response_text |-> NOT_CONFIGURED_CHAT, achievement |-> None])
            /\ UNCHANGED genai
       ELSE /\ Called(response_text)
            /\ LET r == chat_with_interviewer(response_text) IN
               IF r.raised THEN Finish(w, 500, None)
               ELSE Goto(w, "chat_assistant_message",
                         [response_text |-> r.response_text,
                          achievement |-> r.achievement])
  /\ UNCHANGED <<tables, now, issued>>

\* ChatResponse(response=response_text, achievement_extracted=achievement)
ChatResponse(loc) ==
  [response |-> loc.response_text, achievement_extracted |-> loc.achievement]

\* chat: INSERT INTO chat_messages (the assistant's reply), commit; the response
\* when there is no draft
chat_assistant_message(w) ==
  /\ task[w].pc = "chat_assistant_message"
  /\ InsertMessage(w, "assistant", task[w].loc.response_text)
  /\ IF IsNone(task[w].loc.achievement)
       THEN Finish(w, 200, ChatResponse(task[w].loc))
       ELSE Goto(w, "chat_achievement", task[w].loc)
  /\ UNCHANGED <<users, profiles, achievements, applications, now, issued, genai>>

\* achievement.verification_level or "Medium"
OrMedium(verification_level) ==
  IF IsNone(verification_level) \/ Val(verification_level) = ""
    THEN Some("Medium") ELSE verification_level

\* chat: INSERT INTO achievements (the draft), commit, and the response
chat_achievement(w) ==
  /\ task[w].pc = "chat_achievement"
  /\ LET achievement == Val(task[w].loc.achievement) IN
     achievements' = achievements \cup
       {AchievementRow(sqlite_sequence.achievements + 1, task[w].uid, achievement,
                       OrMedium(achievement.verification_level))}
  /\ Inserted(w, "achievements")
  /\ Finish(w, 200, ChatResponse(task[w].loc))
  /\ UNCHANGED <<users, profiles, applications, chat_messages, now, issued, genai>>

get_chat_history(w, cred) ==
  /\ task[w] = Idle
  /\ LET current_user == Depends_get_current_user(cred) IN
     IF ~current_user.ok THEN Refuse(w, "get_chat_history", cred, 0, None)
     ELSE /\ \E rows \in OldestFirst(ChatOf(current_user.id)) :
               Reply(w, "get_chat_history", cred, current_user.id, 0, None, 200,
                     [messages |->
                        [i \in DOMAIN rows |->
                           [role |-> rows[i].role, content |-> rows[i].content,
                            created_at |-> rows[i].created_at]]])
          /\ UNCHANGED <<tables, now, issued, genai>>

\* clear_chat_history: DELETE FROM chat_messages WHERE user_id = ?
clear_chat_history(w, cred) ==
  /\ task[w] = Idle
  /\ LET current_user == Depends_get_current_user(cred) IN
     IF ~current_user.ok THEN Refuse(w, "clear_chat_history", cred, 0, None)
     ELSE /\ chat_messages' = chat_messages \ ChatOf(current_user.id)
          /\ Reply(w, "clear_chat_history", cred, current_user.id, 0, None, 200,
                   [message |-> "Chat history cleared"])
          /\ UNCHANGED <<users, profiles, achievements, applications,
                         sqlite_sequence, last_insert_rowid, now, issued, genai>>

\* tailor: SELECT * FROM profiles, SELECT * FROM achievements (read for the prompt)
tailor(w, cred, job_description) ==
  /\ task[w] = Idle
  /\ LET current_user == Depends_get_current_user(cred) IN
     IF ~current_user.ok
       THEN Refuse(w, "tailor", cred, 0, [job_description |-> job_description])
     ELSE /\ MayCall
          /\ Begin(w, "tailor_model", "tailor", cred, current_user.id, 0,
                   [job_description |-> job_description], None)
          /\ UNCHANGED <<tables, now, issued, genai>>

\* tailor: tailor_resume(...) and TailorResponse(**result)
tailor_model(w, response_text) ==
  /\ task[w].pc = "tailor_model"
  /\ IF ~configure_gemini
       THEN /\ Finish(w, 200, TailorResponse(NOT_CONFIGURED_TAILOR).value)
            /\ UNCHANGED genai
       ELSE /\ Called(response_text)
            /\ LET out == TailorResponse(tailor_resume(response_text)) IN
               IF out.ok THEN Finish(w, 200, out.value) ELSE Finish(w, 500, None)
  /\ UNCHANGED <<tables, now, issued>>

extract_profile(w, cred, resume_text) ==
  /\ task[w] = Idle
  /\ LET current_user == Depends_get_current_user(cred) IN
     IF ~current_user.ok
       THEN Refuse(w, "extract_profile", cred, 0, [resume_text |-> resume_text])
     ELSE /\ MayCall
          /\ Begin(w, "extract_model", "extract_profile", cred, current_user.id, 0,
                   [resume_text |-> resume_text], None)
          /\ UNCHANGED <<tables, now, issued, genai>>

\* extract_profile: extract_profile_from_resume(...) and
\* ResumeExtractResponse(**result)
extract_model(w, response_text) ==
  /\ task[w].pc = "extract_model"
  /\ IF ~configure_gemini
       THEN /\ Finish(w, 200, ResumeExtractResponse(NOT_CONFIGURED_EXTRACT).value)
            /\ UNCHANGED genai
       ELSE /\ Called(response_text)
            /\ LET out == ResumeExtractResponse(extract_profile_from_resume(response_text)) IN
               IF out.ok THEN Finish(w, 200, out.value) ELSE Finish(w, 500, None)
  /\ UNCHANGED <<tables, now, issued>>

(***************************************************************************)
(* main.py                                                                 *)
(***************************************************************************)
\* healthz: answered by the event loop of worker w, when it is not running a
\* handler
healthz(w) ==
  /\ task[w] = Idle
  /\ Reply(w, "healthz", NoCred, 0, 0, None, 200, [status |-> "ok"])
  /\ UNCHANGED <<tables, now, issued, genai>>

\* the process of worker w dies between two statements of its handler and is
\* started again: the request gets no answer, what was committed stays (every
\* statement is followed by its commit, and no handler undoes one), and the
\* new process has a new connection
crash(w) ==
  /\ task[w] # Idle
  /\ task' = [task EXCEPT ![w] = Idle]
  /\ last_insert_rowid' = [last_insert_rowid EXCEPT ![w] = 0]
  /\ UNCHANGED <<users, profiles, achievements, applications, chat_messages,
                 sqlite_sequence, now, issued, settings, genai, last>>

\* time passes
Tick ==
  /\ \E t \in Instants : t > now /\ now' = t
  /\ UNCHANGED <<tables, issued, settings, genai, task, last>>

(***************************************************************************)
(* Inputs                                                                  *)
(***************************************************************************)
Emails == {"a@x.io", "b@x.io"}
Tokens == {Bearer(t) : t \in issued}
RowIds == 1..MaxRows

AchievementBody(core_task, skills_used, tags) ==
  [core_task |-> core_task, impact_metric |-> None, skills_used |-> skills_used,
   tags |-> tags, verification_level |-> Some("Medium")]

ApplicationBody(status) == [job_title |-> Some("SRE"), status |-> status]

ProfileBody(target_roles, values) ==
  [name |-> Some("Ada"), email |-> None, target_roles |-> target_roles,
   values |-> values]

(***************************************************************************)
(* SpecOwner: one worker, achievements and applications of two users       *)
(***************************************************************************)
OwnerCreated == AchievementBody("shipped", Some(<<>>), Some(<<>>))
OwnerUpdated == AchievementBody("fixed", Some(<<>>), Some(<<>>))

NextOwner ==
  \E w \in {1} :
    \/ \E e \in Emails : register(w, e, "pw")
    \/ register_user(w, "5f")
    \/ register_profile(w)
    \/ \E c \in Tokens : create_achievement(w, c, OwnerCreated)
    \/ create_achievement_read(w)
    \/ \E c \in Tokens, id \in RowIds : update_achievement(w, c, id, OwnerUpdated)
    \/ update_achievement_write(w)
    \/ update_achievement_read(w)
    \/ \E c \in Tokens, id \in RowIds : delete_achievement(w, c, id)
    \/ delete_achievement_write(w)
    \/ \E c \in Tokens : create_application(w, c, ApplicationBody(Some("saved")))
    \/ create_application_read(w)
    \/ \E c \in Tokens, id \in RowIds :
         update_application(w, c, id, ApplicationBody(Some("interview")))
    \/ update_application_write(w)
    \/ update_application_read(w)
    \/ \E c \in Tokens, id \in RowIds : delete_application(w, c, id)
    \/ delete_application_write(w)

SpecOwner == Init /\ [][NextOwner]_vars

(***************************************************************************)
(* SpecStatus: one worker, one user's applications through the statuses    *)
(***************************************************************************)
StatusCreated == {Some("saved"), Some("applied")}
StatusUpdated == {Some("applied"), Some("interview"), Some("archived"), None}

NextStatus ==
  \E w \in {1} :
    \/ register(w, "a@x.io", "pw")
    \/ register_user(w, "5f")
    \/ register_profile(w)
    \/ \E c \in Tokens : get_applications(w, c)
    \/ \E c \in Tokens, st \in StatusCreated : create_application(w, c, ApplicationBody(st))
    \/ create_application_read(w)
    \/ \E c \in Tokens, id \in RowIds, st \in StatusUpdated :
         update_application(w, c, id, ApplicationBody(st))
    \/ update_application_write(w)
    \/ update_application_read(w)
    \/ \E c \in Tokens, id \in RowIds : delete_application(w, c, id)
    \/ delete_application_write(w)

SpecStatus == Init /\ [][NextStatus]_vars

(***************************************************************************)
(* SpecRegister: two workers, registrations and logins racing              *)
(***************************************************************************)
Passwords == {"pw", "hunter2"}

NextRegister ==
  \E w \in Workers :
    \/ \E e \in Emails, p \in Passwords : register(w, e, p)
    \/ register_user(w, "5f")
    \/ register_profile(w)
    \/ \E e \in Emails, p \in Passwords : login(w, e, p)
    \/ \E c \in Tokens : get_me(w, c)

SpecRegister == Init /\ [][NextRegister]_vars

(***************************************************************************)
(* SpecLists: one worker, one user's list fields written and read back     *)
(***************************************************************************)
\* ["Go", "SQL"], the same in the other order, and a list of strings that hold
\* the characters json.dumps escapes or json.loads gives a meaning to
ListInputs ==
  <<Some(<<>>),
    Some(<<<<"G", "o">>, <<"S", "Q", "L">>>>),
    Some(<<<<"S", "Q", "L">>, <<"G", "o">>>>),
    Some(<<<<"C", QUOTE, ",", " ", QUOTE>>, <<>>,
           <<"]", BACKSLASH, "\n", BACKSLASH, QUOTE, "[">>>>)>>

\* the list submitted next to ListInputs[i] in the other field of the record
Other(i) == ListInputs[(i % Len(ListInputs)) + 1]

NextLists ==
  \E w \in {1} :
    \/ register(w, "a@x.io", "pw")
    \/ register_user(w, "5f")
    \/ register_profile(w)
    \/ \E c \in Tokens : get_profile(w, c)
    \/ \E c \in Tokens, i \in DOMAIN ListInputs :
         update_profile(w, c, ProfileBody(ListInputs[i], Other(i)))
    \/ update_profile_read(w)
    \/ \E c \in Tokens : get_achievements(w, c)
    \/ \E c \in Tokens, i \in DOMAIN ListInputs :
         create_achievement(w, c, AchievementBody("shipped", ListInputs[i], Other(i)))
    \/ create_achievement_read(w)
    \/ \E c \in Tokens, id \in RowIds, i \in DOMAIN ListInputs :
         update_achievement(w, c, id, AchievementBody("fixed", Other(i), ListInputs[i]))
    \/ update_achievement_write(w)
    \/ update_achievement_read(w)

SpecLists == Init /\ [][NextLists]_vars

(***************************************************************************)
(* SpecSession: one worker, two users' tokens presented as time passes     *)
(***************************************************************************)
NextSession ==
  \/ Tick
  \/ \E w \in {1} :
       \/ \E e \in Emails : register(w, e, "pw")
       \/ register_user(w, "5f")
       \/ register_profile(w)
       \/ \E e \in Emails : Cardinality(issued) < MaxTokens /\ login(w, e, "pw")
       \/ \E c \in Tokens : get_me(w, c)
       \/ \E c \in Tokens : get_profile(w, c)
       \/ \E c \in Tokens : update_profile(w, c, ProfileBody(Some(<<>>), Some(<<>>)))
       \/ update_profile_read(w)

SpecSession == Init /\ [][NextSession]_vars

(***************************************************************************)
(* Replies of the external model                                           *)
(***************************************************************************)
\* a fenced block: the fence, the word json, a line break, body, a line break,
\* the fence
Block(body) == <<FENCE, "json", "\n">> \o body \o <<"\n", FENCE>>

\* {"achievement_extracted": payload}
Extracted(payload) ==
  <<"{", StrLit("achievement_extracted"), ":", " ">> \o payload \o <<"}">>

\* {"core_task": "Cut latency", "impact_metric": "by 40%",
\*  "skills_used": ["Go", "SQL"], "verification_level": null}
Payload ==
  <<"{", StrLit("core_task"), ":", " ", StrLit("Cut latency"), ",", " ",
    StrLit("impact_metric"), ":", " ", StrLit("by 40%"), ",", " ",
    StrLit("skills_used"), ":", " ", "[", StrLit("Go"), ",", " ", StrLit("SQL"), "]",
    ",", " ", StrLit("verification_level"), ":", " ", "null", "}">>

\* {"note": "high"}
Note == <<"{", StrLit("note"), ":", " ", StrLit("high"), "}">>

ChatReplies ==
  {\* prose only
   <<"Which", " ", "year?">>,
   \* an achievement block at the end, and one in the middle
   <<"Great!", "\n", "\n">> \o Block(Extracted(Payload)),
   <<"Great!", "\n">> \o Block(Extracted(Payload)) \o <<"\n", "Anything", " ", "else?">>,
   \* a block that does not parse
   Block(<<"{", StrLit("achievement_extracted"), ":", "{", "}">>),
   \* an object without the key
   Block(Note),
   \* a payload without core_task, and one with a list as core_task
   Block(Extracted(<<"{", StrLit("impact_metric"), ":", " ", StrLit("by 40%"), "}">>)),
   Block(Extracted(<<"{", StrLit("core_task"), ":", " ", "[", "]", "}">>)),
   \* a payload that is not an object: null, a list
   Block(Extracted(<<"null">>)),
   Block(Extracted(<<"[", StrLit("Cut latency"), "]">>)),
   \* two blocks, the achievement in the second
   <<"Noted:", "\n">> \o Block(Note) \o <<"\n">> \o Block(Extracted(Payload))}

\* {"tailored_summary": "Fits the role.", "selected_achievements": [{"id": 1}],
\*  "match_score": score, "suggestions": ["Add metrics"]}
Tailored(score) ==
  <<"{", StrLit("tailored_summary"), ":", " ", StrLit("Fits the role."), ",", " ",
    StrLit("selected_achievements"), ":", " ", "[", "{", StrLit("id"), ":", " ", "1",
    "}", "]", ",", " ", StrLit("match_score"), ":", " ", score, ",", " ",
    StrLit("suggestions"), ":", " ", "[", StrLit("Add metrics"), "]", "}">>

TailorReplies ==
  {<<"Here", " ", "it", " ", "is:", "\n">> \o Tailored("7"),
   <<"Sorry.">>,
   <<"{", "tailored_summary", "}">>,
   Note,
   Tailored(StrLit("high"))}

\* {"name": name, "summary": null, "target_roles": ["SRE"]}
Extract(name) ==
  <<"{", StrLit("name"), ":", " ">> \o name \o
  <<",", " ", StrLit("summary"), ":", " ", "null", ",", " ",
    StrLit("target_roles"), ":", " ", "[", StrLit("SRE"), "]", "}">>

\* (replies with wrongly typed values are left to chat and tailor, whose
\* models' field types are in schemas.py)
ExtractReplies ==
  {Extract(<<StrLit("Ada")>>),
   <<"Sorry.">>,
   <<"{", "name", "}">>,
   Note}

(***************************************************************************)
(* SpecAI: one worker, one user, the AI routes with and without an API key *)
(***************************************************************************)
InitAI == \E key \in {"", "AIza-key"} : Started(key)

Messages == {<<"I", " ", "cut", " ", "latency.">>, <<"Hi">>}

NextAI ==
  \E w \in {1} :
    \/ register(w, "a@x.io", "pw")
    \/ register_user(w, "5f")
    \/ register_profile(w)
    \/ \E c \in Tokens, message \in Messages :
         /\ sqlite_sequence.chat_messages + 2 <= MaxMessages
         /\ chat(w, c, message)
    \/ chat_user_message(w)
    \/ \E response_text \in ChatReplies : chat_model(w, response_text)
    \/ chat_assistant_message(w)
    \/ chat_achievement(w)
    \/ \E c \in Tokens : tailor(w, c, "SRE wanted")
    \/ \E response_text \in TailorReplies : tailor_model(w, response_text)
    \/ \E c \in Tokens : extract_profile(w, c, "Ada, SRE")
    \/ \E response_text \in ExtractReplies : extract_model(w, response_text)

SpecAI == InitAI /\ [][NextAI]_vars

(***************************************************************************)
(* SpecGate: one worker, one user, every protected route asked with good   *)
(* and with bad credentials; with good ones, one row per table             *)
(***************************************************************************)
\* no Authorization header; a bearer value that is not a token; tokens for user 1
\* signed with another key, with a subject that is not a number, and expired
\* before the clock of the model started
BadCreds ==
  {NoCred,
   Bearer([fmt |-> "garbage"]),
   Bearer([fmt |-> "jwt", sub |-> Some("1"),
           exp |-> (MaxLifetimes + 2) * ACCESS_TOKEN_EXPIRE_MINUTES,
           key |-> "another-key"]),
   Bearer([fmt |-> "jwt", sub |-> Some("x"),
           exp |-> (MaxLifetimes + 2) * ACCESS_TOKEN_EXPIRE_MINUTES,
           key |-> SECRET_KEY]),
   Bearer([fmt |-> "jwt", sub |-> Some("1"), exp |-> 0 - 1, key |-> SECRET_KEY])}

\* with good credentials, the first row of table tbl only
First(c, tbl) == c \in Tokens => sqlite_sequence[tbl] = 0

GateCreds == BadCreds \cup Tokens

NextGate ==
  \/ \E w \in {1} :
       \/ register(w, "a@x.io", "pw")
       \/ register_user(w, "5f")
       \/ register_profile(w)
       \/ \E c \in GateCreds : get_me(w, c)
       \/ \E c \in GateCreds : get_profile(w, c)
       \/ \E c \in GateCreds : update_profile(w, c, ProfileBody(Some(<<>>), Some(<<>>)))
       \/ update_profile_read(w)
       \/ \E c \in GateCreds : get_achievements(w, c)
       \/ \E c \in GateCreds : First(c, "achievements") /\ create_achievement(w, c, OwnerCreated)
       \/ create_achievement_read(w)
       \/ \E c \in GateCreds : update_achievement(w, c, 1, OwnerUpdated)
       \/ update_achievement_write(w)
       \/ update_achievement_read(w)
       \/ \E c \in GateCreds : delete_achievement(w, c, 1)
       \/ delete_achievement_write(w)
       \/ \E c \in GateCreds : get_applications(w, c)
       \/ \E c \in GateCreds :
            /\ First(c, "applications")
            /\ create_application(w, c, ApplicationBody(Some("saved")))
       \/ create_application_read(w)
       \/ \E c \in GateCreds :
            update_application(w, c, 1, ApplicationBody(Some("interview")))
       \/ update_application_write(w)
       \/ update_application_read(w)
       \/ \E c \in GateCreds : delete_application(w, c, 1)
       \/ delete_application_write(w)
       \/ \E c \in GateCreds : First(c, "chat_messages") /\ chat(w, c, <<"Hi">>)
       \/ chat_user_message(w)
       \/ chat_model(w, <<"Sorry.">>)
       \/ chat_assistant_message(w)
       \/ \E c \in GateCreds : get_chat_history(w, c)
       \/ \E c \in GateCreds : clear_chat_history(w, c)
       \/ \E c \in GateCreds : tailor(w, c, "SRE wanted")
       \/ tailor_model(w, <<"Sorry.">>)
       \/ \E c \in GateCreds : extract_profile(w, c, "Ada, SRE")
       \/ extract_model(w, <<"Sorry.">>)

SpecGate == Init /\ [][NextGate]_vars

(***************************************************************************)
(* SpecServe: two workers, one user, the AI routes next to a list and a    *)
(* health request                                                          *)
(***************************************************************************)
NextServe ==
  \E w \in Workers :
    \/ register(w, "a@x.io", "pw")
    \/ register_user(w, "5f")
    \/ register_profile(w)
    \/ \E c \in Tokens :
         /\ sqlite_sequence.chat_messages + 2 <= MaxMessages
         /\ chat(w, c, <<"Hi">>)
    \/ chat_user_message(w)
    \/ chat_model(w, <<"Which", " ", "year?">>)
    \/ chat_assistant_message(w)
    \/ \E c \in Tokens : tailor(w, c, "SRE wanted")
    \/ tailor_model(w, <<"Sorry.">>)
    \/ \E c \in Tokens : extract_profile(w, c, "Ada, SRE")
    \/ extract_model(w, <<"Sorry.">>)
    \/ \E c \in Tokens : get_achievements(w, c)
    \/ healthz(w)

SpecServe == InitAI /\ [][NextServe]_vars

(***************************************************************************)
(* SpecChat: two users, the chat log appended to, read and cleared         *)
(* as time passes, within the lifetime of the tokens                       *)
(***************************************************************************)
NextChat ==
  \/ Tick /\ now' < ACCESS_TOKEN_EXPIRE_MINUTES
  \/ \E w \in {1} :
       \/ \E e \in Emails : register(w, e, "pw")
       \/ register_user(w, "5f")
       \/ register_profile(w)
       \/ \E c \in Tokens :
            /\ sqlite_sequence.chat_messages + 2 <= MaxMessages
            /\ chat(w, c, <<"Hi">>)
       \/ chat_user_message(w)
       \/ chat_model(w, <<"Which", " ", "year?">>)
       \/ chat_assistant_message(w)
       \/ \E c \in Tokens : get_chat_history(w, c)
       \/ \E c \in Tokens : clear_chat_history(w, c)

SpecChat == InitAI /\ [][NextChat]_vars

(***************************************************************************)
(* SpecLogin: two workers, registrations and logins with the right and the *)
(* wrong password, on a database that holds a user whose stored hash has   *)
(* no salt separator                                                       *)
(***************************************************************************)
\* a user stored with an unsalted digest, and its profile
Unsalted == [id |-> 1, email |-> "old@x.io", hashed_password |-> <<"sha256(pw)">>]

InitLogin ==
  StartedOn("", {Unsalted},
            {[id |-> 1, user_id |-> 1, name |-> None, email |-> Some("old@x.io"),
              target_roles |-> None, user_values |-> None]},
            {})

NextLogin ==
  \E w \in Workers :
    \/ \E p \in Passwords : register(w, "a@x.io", p)
    \/ register_user(w, "5f")
    \/ register_profile(w)
    \/ \E e \in Emails \cup {"old@x.io"}, p \in Passwords : login(w, e, p)
    \/ \E c \in Tokens : get_me(w, c)

SpecLogin == InitLogin /\ [][NextLogin]_vars

(***************************************************************************)
(* SpecScope: one worker, two users, rows created and listed as time       *)
(* passes, within the lifetime of the tokens                               *)
(***************************************************************************)
NextScope ==
  \/ Tick /\ now' < ACCESS_TOKEN_EXPIRE_MINUTES
  \/ \E w \in {1} :
       \/ \E e \in Emails : register(w, e, "pw")
       \/ register_user(w, "5f")
       \/ register_profile(w)
       \/ \E c \in Tokens : get_achievements(w, c)
       \/ \E c \in Tokens : create_achievement(w, c, OwnerCreated)
       \/ create_achievement_read(w)
       \/ \E c \in Tokens : get_applications(w, c)
       \/ \E c \in Tokens : create_application(w, c, ApplicationBody(Some("saved")))
       \/ create_application_read(w)

SpecScope == Init /\ [][NextScope]_vars

(***************************************************************************)
(* SpecHistory: one user with a chat log of ChatHistoryLimit messages, who *)
(* logs in and goes on chatting as time passes                             *)
(***************************************************************************)
\* the i-th message of the log: the turns alternate, each has its own text, and
\* each was stored at its own instant before the clock of the model started
Turn(i) ==
  [id |-> i, user_id |-> 1,
   role |-> IF i % 2 = 1 THEN "user" ELSE "assistant",
   content |-> <<"turn", IntToStr(i \div 10), IntToStr(i % 10)>>,
   created_at |-> i - ChatHistoryLimit - 1]

InitHistory ==
  StartedOn("AIza-key",
            {[id |-> 1, email |-> "a@x.io",
              hashed_password |-> get_password_hash("5f", "pw")]},
            {[id |-> 1, user_id |-> 1, name |-> None, email |-> Some("a@x.io"),
              target_roles |-> None, user_values |-> None]},
            {Turn(i) : i \in 1..ChatHistoryLimit})

NextHistory ==
  \/ Tick /\ now' < ACCESS_TOKEN_EXPIRE_MINUTES
  \/ \E w \in {1} :
       \/ issued = {} /\ login(w, "a@x.io", "pw")
       \/ \E c \in Tokens, message \in Messages :
            /\ sqlite_sequence.chat_messages + 2 <= ChatHistoryLimit + MaxMessages
            /\ chat(w, c, message)
       \/ chat_user_message(w)
       \/ \E response_text \in {<<"Which", " ", "year?">>, <<"Sorry.">>} :
            chat_model(w, response_text)
       \/ chat_assistant_message(w)
       \/ \E c \in Tokens : get_chat_history(w, c)

SpecHistory == InitHistory /\ [][NextHistory]_vars

(***************************************************************************)
(* SpecSteps: two workers, one user, chat requests that go through, fail   *)
(* or are cut short by a crash                                             *)
(***************************************************************************)
NextSteps ==
  \E w \in Workers :
    \/ register(w, "a@x.io", "pw")
    \/ register_user(w, "5f")
    \/ register_profile(w)
    \/ \E c \in Tokens :
         /\ sqlite_sequence.chat_messages + 2 <= MaxMessages
         /\ chat(w, c, <<"I", " ", "cut", " ", "latency.">>)
    \/ chat_user_message(w)
    \/ \E response_text \in {<<"Which", " ", "year?">>,
                              <<"Great!", "\n", "\n">> \o Block(Extracted(Payload)),
                              Block(Extracted(<<"null">>))} :
         chat_model(w, response_text)
    \/ chat_assistant_message(w)
    \/ chat_achievement(w)
    \/ crash(w)

SpecSteps == InitAI /\ [][NextSteps]_vars

(***************************************************************************)
(* SpecCreate: two workers, two users, creates of achievements and of      *)
(* applications racing                                                     *)
(***************************************************************************)
NextCreate ==
  \/ \E w \in {1} :
       \/ \E e \in Emails : register(w, e, "pw")
       \/ register_user(w, "5f")
       \/ register_profile(w)
  \/ \E w \in Workers :
       \/ \E c \in Tokens, a \in {OwnerCreated, OwnerUpdated} : create_achievement(w, c, a)
       \/ create_achievement_read(w)
       \/ \E c \in Tokens, st \in StatusCreated :
            create_application(w, c, ApplicationBody(st))
       \/ create_application_read(w)

SpecCreate == Init /\ [][NextCreate]_vars

(***************************************************************************)
(* SpecRace: two workers, one user, updates and deletes of the same rows   *)
(* of achievements and of applications racing                              *)
(***************************************************************************)
NextRace ==
  \/ \E w \in {1} :
       \/ register(w, "a@x.io", "pw")
       \/ register_user(w, "5f")
       \/ register_profile(w)
       \/ \E c \in Tokens : create_achievement(w, c, OwnerCreated)
       \/ create_achievement_read(w)
       \/ \E c \in Tokens : create_application(w, c, ApplicationBody(Some("saved")))
       \/ create_application_read(w)
  \/ \E w \in Workers :
       \/ \E c \in Tokens, id \in RowIds : update_achievement(w, c, id, OwnerUpdated)
       \/ update_achievement_write(w)
       \/ update_achievement_read(w)
       \/ \E c \in Tokens, id \in RowIds : delete_achievement(w, c, id)
       \/ delete_achievement_write(w)
       \/ \E c \in Tokens, id \in RowIds :
            update_application(w, c, id, ApplicationBody(Some("interview")))
       \/ update_application_write(w)
       \/ update_application_read(w)
       \/ \E c \in Tokens, id \in RowIds : delete_application(w, c, id)
       \/ delete_application_write(w)

SpecRace == Init /\ [][NextRace]_vars

(***************************************************************************)
(* Claims                                                                  *)
(***************************************************************************)
UserIds == {u.id : u \in users}

\* the user for whom the step from the current state to the next one runs
Acting(u) ==
  \/ \E w \in Workers :
       /\ task'[w] # task[w]
       /\ IF task[w] = Idle THEN task'[w].uid = u ELSE task[w].uid = u
  \/ task' = task /\ last' # last /\ last'.uid = u

OfTable(op) ==
  IF op \in {"update_achievement", "delete_achievement"} THEN achievements
  ELSE IF op \in {"update_application", "delete_application"} THEN applications
  ELSE {}

C1_Answered404 ==
  \A r \in OfTable(last.op) :
    (last.uid # 0 /\ r.id = last.arg /\ r.user_id # last.uid)
      => (last.code = 404 /\ last.body = None)

C1_RowsKept ==
  \A u \in UserIds : Acting(u) =>
    /\ \A r \in achievements : r.user_id # u => r \in achievements'
    /\ \A r \in applications : r.user_id # u => r \in applications'

\* C1: a PUT or DELETE by user A on the id of an achievement or application row
\* of another user B is answered 404 with no body, and no step that runs for A
\* changes or removes a row of B.
C1_ForeignRowNotFound == [](C1_Answered404) /\ [][C1_RowsKept]_vars

\* a PUT by A on B's achievement, after B has updated that row, answered 404
C1_Witness ==
  /\ last.op = "update_achievement"
  /\ last.code = 404
  /\ \E r \in achievements :
       r.id = last.arg /\ r.user_id # last.uid /\ last.uid # 0 /\ r.core_task = "fixed"

\* the step is the UPDATE statement of an update_application that goes through
UpdatesApplication(w) ==
  /\ task[w].pc = "update_application_write"
  /\ task'[w].pc = "update_application_read"

\* the row of applications' with the id of row r
After(r) == CHOOSE r2 \in applications' : r2.id = r.id

C2_Step ==
  \A w \in Workers : UpdatesApplication(w) =>
    \A r \in OwnedBy(applications, task[w].arg, task[w].uid) :
      /\ task[w].req.status = Some("applied") => ~IsNone(After(r).applied_at)
      /\ task[w].req.status # Some("applied") => After(r).applied_at = r.applied_at

\* C2: an update of the caller's application to status "applied" leaves applied_at
\* non-null, and an update to any other status leaves applied_at as it was.
C2_AppliedAtKept == [][C2_Step]_vars

\* an application that was applied for, answered after its update to "interview"
C2_Witness ==
  /\ last.op = "update_application"
  /\ last.code = 200
  /\ last.req.status = Some("interview")
  /\ ~IsNone(last.body.applied_at)

C3_Step ==
  \A w \in Workers : UpdatesApplication(w) =>
    \A r \in OwnedBy(applications, task[w].arg, task[w].uid) :
      (After(r).applied_at # r.applied_at)
        <=> (r.status # Some("applied") /\ task[w].req.status = Some("applied"))

\* C3: on every successful application update, applied_at changes if and only if
\* the stored status was not "applied" and the status of the update is "applied".
C3_AppliedAtOnTransition == [][C3_Step]_vars

C4_OneRowPerEmail == \A u1, u2 \in users : u1.email = u2.email => u1 = u2

C4_Step ==
  /\ \A w \in Workers :
       \* no register request gets past the check with an email that has a row
       /\ (task[w] = Idle /\ task'[w] # Idle /\ task'[w].op = "register")
            => UserByEmail(task'[w].req.email) = {}
       \* the INSERT of a request that lost a race inserts nothing
       /\ (task[w].pc = "register_user" /\ task'[w] # task[w]
             /\ UserByEmail(task[w].req.email) # {})
            => (users' = users /\ profiles' = profiles /\ last'.code = 500)
  \* a register request answered by the check is answered 400, nothing inserted
  /\ (task' = task /\ last' # last /\ last'.op = "register")
       => /\ last'.code = 400
          /\ UserByEmail(last'.req.email) # {}
          /\ users' = users
          /\ profiles' = profiles

\* C4: there is never more than one users row per email, and a register request
\* for an email that has a users row is answered 400 and inserts no users row and
\* no profiles row (a request that loses a race after its check inserts nothing
\* either).
C4_DuplicateEmailConflict == [](C4_OneRowPerEmail) /\ [][C4_Step]_vars

\* a second registration of a registered email, answered 400
C4_Witness ==
  /\ last.op = "register"
  /\ last.code = 400
  /\ Cardinality(UserByEmail(last.req.email)) = 1
  /\ Cardinality(users) = Cardinality(profiles)

\* the step is a write of list fields by worker w
WritesLists(w) ==
  \/ /\ task[w] = Idle
     /\ task'[w] # Idle
     /\ task'[w].op \in {"create_achievement", "update_profile"}
  \/ /\ task[w].pc = "update_achievement_write"
     /\ task'[w] # task[w]

\* the records the write of worker w stores, in the state after it
Written(w) ==
  IF task'[w].op = "create_achievement"
    THEN {r \in achievements' : r.id = last_insert_rowid'[w]}
  ELSE IF task'[w].op = "update_achievement"
    THEN OwnedBy(achievements', task[w].arg, task[w].uid)
  ELSE {p \in profiles' : p.user_id = task'[w].uid}

\* the two list fields of a request or of a response body, in the order
\* (skills_used, tags) or (target_roles, values)
ListsOf(op, x) ==
  IF op \in {"get_profile", "update_profile"}
    THEN <<x.target_roles, x.values>>
    ELSE <<x.skills_used, x.tags>>

\* the two list columns of a stored record, as a read parses them
StoredLists(op, r) ==
  IF op \in {"get_profile", "update_profile"}
    THEN <<LoadList(r.target_roles), LoadList(r.user_values)>>
    ELSE <<LoadList(r.skills_used), LoadList(r.tags)>>

\* the stored records a 200 response of operation op for user uid reports,
\* one per reported body
ReadBodies(r) ==
  IF r.op = "get_achievements" THEN {r.body[i] : i \in DOMAIN r.body} ELSE {r.body}

C7_Step ==
  \* what a write stores parses back to the lists submitted
  /\ \A w \in Workers : WritesLists(w) =>
       \A r \in Written(w) :
         StoredLists(task'[w].op, r) =
           <<Val(ListsOf(task'[w].op, task'[w].req)[1]),
             Val(ListsOf(task'[w].op, task'[w].req)[2])>>
  \* what a read answers is what the stored record parses to
  /\ (last' # last /\ last'.code = 200
        /\ last'.op \in {"get_achievements", "get_profile", "create_achievement",
                         "update_achievement", "update_profile"})
       => \A b \in ReadBodies(last') :
            \E r \in (IF last'.op \in {"get_profile", "update_profile"}
                       THEN profiles ELSE achievements) :
              /\ r.id = b.id
              /\ r.user_id = last'.uid
              /\ ListsOf(last'.op, b) = StoredLists(last'.op, r)

\* C7: a list of strings submitted as skills_used or tags on achievement create or
\* update, or as target_roles or values on profile update, is stored as a text that
\* parses back to the same list, in content and order (the empty list included),
\* and every read of the record by its user returns the list its stored text
\* parses to.
C7_ListsRoundTrip == [][C7_Step]_vars

\* a profile read that returns the list of strings with quotes, a backslash, a
\* newline and brackets, by a user whose achievement holds an empty list
C7_Witness ==
  /\ last.op = "get_profile"
  /\ last.code = 200
  /\ last.body.values = Val(ListInputs[4])
  /\ last.body.target_roles = Val(ListInputs[3])
  /\ \E r \in achievements :
       r.user_id = last.uid /\ r.core_task = "fixed" /\ LoadList(r.tags) = <<>>

\* the routes without Depends(get_current_user)
Public == {"register", "login"}

\* the step takes in a request to a protected route with the credentials cred
Presented(cred) ==
  \/ task' = task /\ last' # last /\ last'.cred = cred /\ last'.op \notin Public
  \/ \E w \in Workers :
       /\ task[w] = Idle
       /\ task'[w] # Idle
       /\ task'[w].cred = cred
       /\ task'[w].op \notin Public

C5_Step ==
  \A token \in issued : Presented(Bearer(token)) =>
    LET U == StrToInt(Val(token.sub)) IN
    /\ now < token.exp =>
         /\ task' = task => (last'.uid = U /\ last'.code # 401)
         /\ \A w \in Workers : task'[w] # task[w] => task'[w].uid = U
    /\ now > token.exp =>
         /\ task' = task
         /\ last'.code = 401
         /\ last'.uid = 0
         /\ tables' = tables
         /\ genai' = genai

\* C5: a request that presents a token issued by register or login for user U
\* before the token's expiry runs for user U and no other; one that presents it
\* after its expiry is answered 401, and no statement of the route runs.
C5_TokenResolvesToItsUser == [][C5_Step]_vars

\* the second user's token, which had updated that user's profile, is refused
\* with 401 after its expiry
C5_Witness ==
  /\ last.op = "get_profile"
  /\ last.code = 401
  /\ last.cred.hdr = "bearer"
  /\ last.cred.token \in issued
  /\ last.cred.token.sub = Some("2")
  /\ last.cred.token.exp < now
  /\ \E p \in profiles : p.user_id = 2 /\ p.name = Some("Ada")

C8_Payloads ==
  /\ genai.calls = 0
  /\ last.op = "chat" =>
       /\ last.code = 200
       /\ last.body.response =
            <<"AI features require a Gemini API key. Please configure GEMINI_API_KEY in the environment.">>
       /\ IsNone(last.body.achievement_extracted)
  /\ last.op = "tailor" =>
       /\ last.code = 200
       /\ last.body =
            [tailored_summary |-> "AI features require a Gemini API key.",
             selected_achievements |-> <<>>,
             match_score |-> 0,
             suggestions |-> <<"Configure GEMINI_API_KEY to enable AI features">>]
  /\ last.op = "extract_profile" =>
       /\ last.code = 200
       /\ last.body.error =
            Some("AI features require a Gemini API key. Please configure GEMINI_API_KEY.")
       /\ IsNone(last.body.name)
       /\ IsNone(last.body.target_roles)

\* C8: with no API key configured the external model is never called, and every
\* chat, tailor and extract-profile request is answered 200 with the operation's
\* fixed "not configured" payload, whatever the request holds.
C8_NotConfigured == settings.GEMINI_API_KEY = "" => C8_Payloads

\* with no API key: a tailor request answered, after a chat whose fixed reply
\* was stored as the assistant's message
C8_Witness ==
  /\ settings.GEMINI_API_KEY = ""
  /\ last.op = "tailor"
  /\ last.code = 200
  /\ \E m \in chat_messages : m.role = "assistant" /\ m.content = NOT_CONFIGURED_CHAT

\* the fenced JSON blocks of text: <<a, d>> with the opening fence and the word
\* json at a, the closing fence at d and no fence between
FencedBlocks(text) ==
  {blk \in (1..Len(text)) \X (1..Len(text)) :
     /\ blk[1] + 1 < blk[2]
     /\ text[blk[1]] = FENCE
     /\ text[blk[1] + 1] = "json"
     /\ text[blk[2]] = FENCE
     /\ \A i \in (blk[1] + 1)..(blk[2] - 1) : text[i] # FENCE}

\* the block parses to an object with a valid achievement_extracted payload
IsAchievementBlock(text, blk) ==
  LET data == loads(SubSeq(text, blk[1] + 2, blk[2] - 1)) IN
  /\ data.ok
  /\ data.value.tag = "obj"
  /\ Has(data.value, "achievement_extracted")
  /\ AchievementCreate(Get(data.value, "achievement_extracted")).raised = ""

AchievementBlocks(text) ==
  {blk \in FencedBlocks(text) : IsAchievementBlock(text, blk)}

\* text with the block removed
Without(text, blk) ==
  SubSeq(text, 1, blk[1] - 1) \o SubSeq(text, blk[2] + 1, Len(text))

\* worker w takes the step at pc of its handler
Steps(w, pc) == task[w].pc = pc /\ task'[w] # task[w]

\* worker w calls the external model in this step, from the step at pc
Calls(w, pc) == Steps(w, pc) /\ genai'.calls = genai.calls + 1

\* the list a draft's field stands for
DraftList(x) == IF IsNone(x) THEN <<>> ELSE Val(x)

\* row r carries the fields of the draft
Carries(r, draft) ==
  /\ r.core_task = draft.core_task
  /\ r.impact_metric = draft.impact_metric
  /\ LoadList(r.skills_used) = DraftList(draft.skills_used)
  /\ LoadList(r.tags) = DraftList(draft.tags)
  /\ r.verification_level =
       (IF IsNone(draft.verification_level) THEN Some("Medium")
        ELSE draft.verification_level)

C9_Step ==
  \A w \in Workers :
    \* the model's reply holds an achievement block: block removed, confirmation
    \* appended, draft non-empty
    /\ (Calls(w, "chat_model") /\ AchievementBlocks(Val(genai'.reply)) # {}) =>
         /\ task'[w].pc = "chat_assistant_message"
         /\ ~IsNone(task'[w].loc.achievement)
         /\ \E blk \in AchievementBlocks(Val(genai'.reply)) :
              task'[w].loc.response_text =
                strip(Without(Val(genai'.reply), blk)) \o CAPTURED
    \* the visible reply is stored
    /\ (Steps(w, "chat_assistant_message") /\ ~IsNone(task[w].loc.achievement)) =>
         /\ task'[w].pc = "chat_achievement"
         /\ \E m \in chat_messages' \ chat_messages :
              /\ m.user_id = task[w].uid
              /\ m.role = "assistant"
              /\ m.content = task[w].loc.response_text
    \* one row with the draft's fields is inserted for the caller, and the
    \* visible reply and the draft are returned
    /\ Steps(w, "chat_achievement") =>
         /\ Cardinality(achievements' \ achievements) = 1
         /\ achievements \subseteq achievements'
         /\ \A r \in achievements' \ achievements :
              r.user_id = task[w].uid /\ Carries(r, Val(task[w].loc.achievement))
         /\ last'.code = 200
         /\ last'.body.response = task[w].loc.response_text
         /\ last'.body.achievement_extracted = task[w].loc.achievement

\* C9: when the model's reply to a chat request holds a fenced JSON block that
\* parses to an object with a valid achievement_extracted payload, the visible
\* reply is the model's reply with that block removed and the "captured"
\* confirmation appended, it is stored and returned, the returned draft is
\* non-empty, and exactly one achievement row with the draft's fields is inserted
\* for the caller.
C9_BlockCaptured == [][C9_Step]_vars

C10_Step ==
  \A w \in Workers :
    \* no reply of the model makes the request fail
    /\ (Calls(w, "chat_model") \/ Calls(w, "tailor_model") \/ Calls(w, "extract_model"))
         => (task'[w] = Idle => last'.code = 200)
    \* in chat, a reply without an achievement block is passed on as it is, with
    \* no draft
    /\ (Calls(w, "chat_model") /\ AchievementBlocks(Val(genai'.reply)) = {}) =>
         /\ task'[w].pc = "chat_assistant_message"
         /\ IsNone(task'[w].loc.achievement)
         /\ task'[w].loc.response_text = Val(genai'.reply)

\* C10: whatever text the model replies (no JSON, unparseable JSON, an object
\* without the expected keys or with values of the wrong type, an
\* achievement_extracted that is not an object), chat, tailor and extract-profile
\* do not end in a server error, and chat passes a reply without a valid
\* achievement block on unmodified with an empty draft.
C10_NeverThrows == [][C10_Step]_vars

\* the credentials are missing, malformed, wrongly signed, expired, or name a
\* subject that is not an integer
Bad(cred) ==
  \/ cred.hdr = "none"
  \/ /\ cred.hdr = "bearer"
     /\ \/ cred.token.fmt # "jwt"
        \/ cred.token.key # SECRET_KEY
        \/ cred.token.exp < now
        \/ ~IsNone(cred.token.sub) /\ ~IsIntStr(Val(cred.token.sub))

C6_Step ==
  \A cred \in GateCreds : (Presented(cred) /\ Bad(cred)) =>
    /\ task' = task
    /\ last'.code = 401
    /\ tables' = tables
    /\ genai' = genai

\* C6: a request to a protected route with a missing, malformed, wrongly signed
\* or expired token, or a token whose subject is not an integer, is answered 401,
\* and no statement of the route runs: no row of any table changes and the
\* external model is not called.
C6_BadTokenUnauthorized == [][C6_Step]_vars

\* the handler of worker w is at its call of the external model
WaitsOnModel(w) ==
  /\ task[w].pc \in {"chat_model", "tailor_model", "extract_model"}
  /\ configure_gemini

\* C11: while a chat, tailor or extract-profile request waits on the external
\* model, every other request can be started and served: a health request that
\* reaches the process whose handler waits is answered, as is a list request.
C11_HungCallBlocksOnlyItsTask ==
  \A w \in Workers : WaitsOnModel(w) =>
    /\ ENABLED healthz(w)
    /\ \A c \in Tokens : ENABLED get_achievements(w, c)

C12_OneProfilePerUser ==
  \A p1, p2 \in profiles : p1.user_id = p2.user_id => p1 = p2

C12_Registered ==
  (last.op = "register" /\ last.code = 200) =>
    /\ \E u \in UserById(last.uid) : u.email = last.req.email
    /\ Cardinality(ProfileOf(last.uid)) = 1
    /\ last.body.sub = Some(IntToStr(last.uid))

\* C12: once a register request has returned successfully, exactly one profiles
\* row has the id of the user created for the request's email as its user_id,
\* that id is the subject of the returned token, and no user ever has more than
\* one profiles row, however register requests interleave.
C12_ProfileOneToOne == C12_OneProfilePerUser /\ C12_Registered

\* two registrations interleaved: the user inserted second got the profile
\* inserted first, and the other registration has returned too
C12_Witness ==
  /\ last.op = "register"
  /\ last.code = 200
  /\ Cardinality(profiles) = 2
  /\ \E p \in profiles : p.user_id = 2 /\ p.id = 1
  /\ \E p \in profiles : p.user_id = last.uid /\ p.id = 2

C13_StatusInEnum ==
  \A r \in applications : ~IsNone(r.status) /\ Val(r.status) \in StatusEnum

\* a body without a status reaches the handler with the default of
\* ApplicationBase.status, "saved"
C13_DefaultSaved ==
  (last.op = "create_application" /\ last.code = 200
     /\ last.req.status = Some("saved"))
    => last.body.status = Some("saved")

\* C13: the status of every stored application is one of saved, applied,
\* interview, offer, rejected, never null or another value, and an application
\* created without a status is stored with the status "saved".
C13_StatusAlwaysInEnum == C13_StatusInEnum /\ C13_DefaultSaved

\* the messages of log S appended before message m
Before(S, m) == {n \in S : n.id < m.id}

\* the sequence out holds the messages of log S, each once, in the order of
\* their insertion, with role and content as stored
InAppendOrder(out, S) ==
  /\ Len(out) = Cardinality(S)
  /\ \A m \in S :
       /\ out[Cardinality(Before(S, m)) + 1].role = m.role
       /\ out[Cardinality(Before(S, m)) + 1].content = m.content

C14_Step ==
  \* a read answers the caller's log, as appended
  /\ (task' = task /\ last' # last /\ last'.op = "get_chat_history"
        /\ last'.code = 200)
       => InAppendOrder(last'.body.messages, ChatOf(last'.uid))
  \* a message is removed only by a clear, which removes the caller's messages
  \* and no other
  /\ ~(chat_messages \subseteq chat_messages') =>
       /\ last'.op = "clear_chat_history"
       /\ chat_messages' = chat_messages \ ChatOf(last'.uid)
  \* a stored message is never modified
  /\ \A m \in chat_messages' : \A n \in chat_messages : m.id = n.id => m = n

\* C14: GET /chat/history returns exactly the caller's messages appended since
\* the caller's last clear, in the order they were appended, role and content
\* unmodified; DELETE /chat/history removes all of the caller's messages and no
\* message of another user; no other step removes or changes a message.
C14_ChatLogAppendOnly == [][C14_Step]_vars

\* the stored value is a salt, the separator and the digest of the salt and p
HashOf(hashed_password, p) ==
  /\ Len(hashed_password) = 3
  /\ hashed_password[2] = ":"
  /\ hashed_password[3] = Sha256(hashed_password[1], p)

C15_Step ==
  \* register stores the salted digest of the password of the request
  /\ \A w \in Workers : (Steps(w, "register_user") /\ users' # users) =>
       \E u \in users' \ users :
         /\ u.email = task[w].req.email
         /\ HashOf(u.hashed_password, task[w].loc.password)
  \* login answers 200 with a token for the user exactly when the password is
  \* the one stored for the email, and 401 without a token otherwise
  /\ (task' = task /\ last' # last /\ last'.op = "login") =>
       IF \E u \in UserByEmail(last'.req.email) :
            HashOf(u.hashed_password, last'.req.password)
         THEN /\ last'.code = 200
              /\ \E u \in UserByEmail(last'.req.email) :
                   last'.body.sub = Some(IntToStr(u.id))
              /\ last'.body \in issued'
         ELSE /\ last'.code = 401
              /\ last'.body = None
              /\ issued' = issued

\* C15: after a user registers with email e and password p, a login with e and
\* a password q returns a token whose subject is the user's id if and only if
\* q = p; a login with a wrong password, an unregistered email, or against a
\* stored hash without the salt separator is answered 401 and issues no token.
C15_LoginIffPassword == [][C15_Step]_vars

\* the user registered with "hunter2" logs in with it, next to the user whose
\* stored hash has no separator, who has no token
C15_Witness ==
  /\ last.op = "login"
  /\ last.code = 200
  /\ last.req.password = "hunter2"
  /\ last.body.sub = Some("2")
  /\ Unsalted \in users
  /\ \A t \in issued : t.sub # Some("1")

\* the table a list operation reads
Listed(op) == IF op = "get_achievements" THEN achievements ELSE applications

C16_Step ==
  (task' = task /\ last' # last /\ last'.code = 200
     /\ last'.op \in {"get_achievements", "get_applications"}) =>
    LET out == last'.body
        mine == {r \in Listed(last'.op) : r.user_id = last'.uid} IN
    \* the caller's rows, each once, and no other
    /\ Len(out) = Cardinality(mine)
    /\ {out[i].id : i \in DOMAIN out} = {r.id : r \in mine}
    \* a row created later comes before a row created earlier
    /\ \A i, j \in DOMAIN out : i < j => out[i].id > out[j].id

\* C16: GET /achievements and GET /applications return exactly the rows whose
\* owner is the caller, none of another user and none missing, a row created
\* later before a row created earlier.
C16_ListScopedNewestFirst == [][C16_Step]_vars

\* the sequence h holds the most recent Len(h) messages of log S, in the order
\* of their insertion, and the most recent one when there is one
RecentTurns(h, S) ==
  /\ Len(h) <= Cardinality(S)
  /\ S # {} => Len(h) >= 1
  /\ \A m \in S :
       LET k == Cardinality(Before(S, m)) + 1 - (Cardinality(S) - Len(h)) IN
       k >= 1 => (h[k].role = m.role /\ h[k].content = m.content)

C17_Step ==
  \A w \in Workers :
    (task[w] = Idle /\ task'[w] # Idle /\ task'[w].op = "chat") =>
      RecentTurns(task'[w].loc.chat_history, ChatOf(task'[w].uid))

\* C17: the prior turns a chat request replays to the model are the caller's own
\* stored messages in chronological order, ending with the most recent message
\* stored before the request, whatever the length of the log (more than 20
\* messages included), and no message of another user.
C17_HistoryEndsWithLatest == [][C17_Step]_vars

\* the message worker w stored last has the role and the content
StoredLast(w, role, content) ==
  \E m \in chat_messages :
    /\ m.id = last_insert_rowid[w]
    /\ m.user_id = task[w].uid
    /\ m.role = role
    /\ m.content = content

\* the step is a crash of worker w's process (a statement that goes through
\* leaves the connection with the id of its last INSERT)
Crashes(w) ==
  task[w] # Idle /\ task'[w] = Idle /\ last_insert_rowid'[w] = 0

C18_Step ==
  \* nothing that was committed is undone, whatever the step (a failure and a
  \* crash included)
  /\ chat_messages \subseteq chat_messages'
  /\ achievements \subseteq achievements'
  /\ \A w \in Workers :
       \* the model is called when the user's message is stored
       /\ Calls(w, "chat_model") =>
            StoredLast(w, "user", task[w].req.message)
       \* the reply is stored after the model has returned, with no achievement
       /\ (Steps(w, "chat_assistant_message") /\ ~Crashes(w)) =>
            /\ genai' = genai
            /\ achievements' = achievements
            /\ \E m \in chat_messages' \ chat_messages :
                 m.role = "assistant" /\ m.content = task[w].loc.response_text
       \* an achievement is inserted when the reply is stored
       /\ (Steps(w, "chat_achievement") /\ achievements' # achievements) =>
            StoredLast(w, "assistant", task[w].loc.response_text)
  \* only the last step of a chat request inserts an achievement
  /\ achievements' # achievements =>
       \E w \in Workers : Steps(w, "chat_achievement") /\ task'[w] = Idle

\* C18: within a chat request the user's message is committed before the model
\* is called, the assistant's reply after the model has returned and before any
\* achievement row is inserted; whatever step the request fails or crashes at,
\* the rows committed by its earlier steps remain, and no achievement row of a
\* chat exists before its reply was committed.
C18_StepsOrderedNoRollback == [][C18_Step]_vars

\* a request crashed after the model had answered: its message is stored,
\* with no reply and no achievement, and no chat request was ever answered
C18_Witness ==
  /\ \A w \in Workers : task[w] = Idle
  /\ genai.calls = 1
  /\ last.op # "chat"
  /\ \E m \in chat_messages : m.role = "user"
  /\ \A m \in chat_messages : m.role # "assistant"
  /\ achievements = {}

\* C19: every stored application whose status is "applied" has a non-null
\* applied_at, whether it reached the status through an update or was created
\* with it.
C19_AppliedHasAppliedAt ==
  \A r \in applications : r.status = Some("applied") => ~IsNone(r.applied_at)

C20_Step ==
  (last' # last /\ last'.code = 200
     /\ last'.op \in {"create_achievement", "create_application"}) =>
    /\ last'.body.user_id = last'.uid
    /\ IF last'.op = "create_achievement"
         THEN /\ last'.body.core_task = last'.req.core_task
              /\ last'.body.impact_metric = last'.req.impact_metric
              /\ last'.body.skills_used = Val(last'.req.skills_used)
              /\ last'.body.tags = Val(last'.req.tags)
              /\ last'.body.verification_level = last'.req.verification_level
         ELSE /\ last'.body.job_title = last'.req.job_title
              /\ last'.body.status = last'.req.status

\* C20: however create requests of different users interleave, the record a
\* create of an achievement or of an application returns has the caller's id as
\* user_id and the field values the caller submitted; it is never a row inserted
\* by another request.
C20_CreateReturnsOwnRecord == [][C20_Step]_vars

\* a create answered with the caller's row, inserted after the row of another
\* user's create that has not read its row back yet
C20_Witness ==
  /\ last.op = "create_achievement"
  /\ last.code = 200
  /\ \E w \in Workers :
       /\ task[w].pc = "create_achievement_read"
       /\ task[w].uid # last.uid
       /\ task[w].req # last.req
       /\ last_insert_rowid[w] < last.body.id

\* the PUT of worker w, past its ownership pre-check, answers in this step
Updated(w) ==
  /\ task[w].pc \in {"update_achievement_read", "update_application_read"}
  /\ task'[w] = Idle

\* no step of an update brings back a row that is not stored
C21_NotRecreated ==
  \A w \in Workers :
    (Steps(w, "update_achievement_write") \/ Steps(w, "update_application_write")) =>
      /\ {r.id : r \in achievements'} \subseteq {r.id : r \in achievements}
      /\ {r.id : r \in applications'} \subseteq {r.id : r \in applications}

C21_Step ==
  /\ \A w \in Workers :
       Updated(w) =>
         /\ last'.code \in {200, 404}
         /\ last'.code = 200 =>
              /\ last'.body.id = task[w].arg
              /\ last'.body.user_id = task[w].uid
  /\ C21_NotRecreated

\* C21: when a DELETE of the same row by its owner lands between a PUT's
\* ownership pre-check and its final re-read, the PUT answers with the updated
\* record or with NotFound, never with a server error or an empty record, and
\* the deleted row is not re-created.
C21_UpdateRacingDelete == [][C21_Step]_vars

====
